---- MODULE Spec2Model ----
(***************************************************************************)
(* openUKR key lifecycle: one KeyProfile reconciled by                     *)
(* KeyProfileReconciler.Reconcile, which calls manager.EnsureKey           *)
(* (decide, generate, fingerprint, PublishAll, SecretWriter.Write, deferred *)
(* Wipe), updates the profile status and schedules the requeue.            *)
(*                                                                         *)
(* Time is counted in whole seconds.  ZeroTime is Go's time.Time{} and     *)
(* NilTime a nil *metav1.Time.  Key material is an integer identifier, 0   *)
(* being a nil reference / zeroed scalar.                                  *)
(***************************************************************************)
EXTENDS Integers, Sequences, FiniteSets, TLC

\* ------------------------------------------------------------------ bounds
MaxTime == 5
MaxTargets == 2
MaxReconciles == 2
DurationBits == 6
MaxSegments == 2

\* --------------------------------------------------------------- constants
ZeroTime == 0
NilTime == -1
RetryDelay == 1

\* validation.MinGracePeriod in minutes, and validation.MinIntervalToGraceRatio
MinGracePeriod == 5
MinIntervalToGraceRatio == 3

AlgorithmEC == "EC"
AlgorithmRSA == "RSA"
RSAMinKeySize == 2048
RSARecommendedMinKeySize == 3072
validCurves == {"P-256", "P-384", "P-521"}
validRSAKeySizes == {2048, 3072, 4096}

FormatSplitPEM == "split-pem"
FormatSinglePEM == "single-pem"
FormatJKS == "jks"

FingerprintPrefix == "SHA256:"

\* The publishers registered by publish.NewManager.
publishers == {"filesystem", "http"}

\* ------------------------------------------------------------ input domains
Intervals == {0, 2}
KeyIDs == {"k1", "k2"}
Materials == {1, 2}
TargetTypes == {"filesystem", "s3"}
Formats == {FormatSplitPEM}

RECURSIVE SeqsUpTo(_, _)
SeqsUpTo(S, n) ==
    IF n = 0 THEN {<<>>}
    ELSE LET shorter == SeqsUpTo(S, n - 1)
         IN  shorter \cup {Append(s, x) : s \in {t \in shorter : Len(t) = n - 1}, x \in S}

TargetLists == SeqsUpTo({[Type |-> t] : t \in TargetTypes}, MaxTargets)

KeySpecs ==
    { [Algorithm |-> AlgorithmEC, Params |-> [curve |-> "P-256", keySize |-> ""],
       AllowLegacyKeySize |-> FALSE],
      [Algorithm |-> AlgorithmRSA, Params |-> [curve |-> "", keySize |-> "2048"],
       AllowLegacyKeySize |-> FALSE] }

\* -------------------------------------------------------------------- state
VARIABLES
    spec,          \* KeyProfile.Spec: Rotation.Interval, Publish, KeySpec, Output.Format
    status,        \* KeyProfile.Status as stored in the profile store
    secret,        \* the Kubernetes Secret of the profile
    published,     \* what publishers have delivered: {<<target index, keyID>>}
    now,           \* the wall clock
    pc,            \* position inside Reconcile / EnsureKey
    profile,       \* Reconcile's local copy of the profile status (r.Get)
    fetched,       \* the status as r.Get returned it, kept for reference
    needsRotation, \* result of checkRotationNeeded
    decidedAt,     \* time.Now() read by checkRotationNeeded
    kp,            \* the *KeyPair returned by Generate
    heap,          \* private material this Reconcile created and has not zeroed
    fingerprint,   \* EnsureKey's local fingerprint
    pubIdx,        \* PublishAll's loop index (1-based)
    errs,          \* PublishAll's errs slice
    outcome,       \* what happened at each target PublishAll visited
    pubCalls,      \* indices of the targets whose publisher was invoked
    pubErr,        \* PublishAll's return value (<<>> is nil)
    writeCalls,    \* number of SecretWriter.Write calls of this EnsureKey
    steps,         \* the steps this EnsureKey invocation has completed
    res,           \* the *RotationResult returned by EnsureKey
    ekErr,         \* the error returned by EnsureKey ("" is nil)
    updates,       \* number of Status().Update calls of this Reconcile
    requeueAt,     \* time.Now() read by time.Until
    result,        \* ctrl.Result and error returned by Reconcile
    runs,          \* number of Reconcile calls so far
    unpersisted,   \* keys delivered to every target whose Secret write failed and has
                   \* not succeeded since: {<<keyID, public key>>}
    fnIn,          \* the arguments of a direct call of the crypto / validation package
    fnOut,         \* what the directly called functions have returned so far
    fnPc,          \* position of the direct caller ("off" inside the controller)
    ctx,           \* the context.Context of the Reconcile call, and what had been
                   \* done when it was cancelled
    procs,         \* the EnsureKey invocations of two profiles running concurrently
    fsys           \* the directory they publish to: names and the files they name

vars == <<spec, status, secret, published, now, pc, profile, fetched, needsRotation,
          decidedAt, kp, heap, fingerprint, pubIdx, errs, outcome, pubCalls, pubErr,
          writeCalls, steps, res, ekErr, updates, requeueAt, result, runs, unpersisted,
          fnIn, fnOut, fnPc, ctx, procs, fsys>>

fnVars == <<fnIn, fnOut, fnPc>>
concVars == <<procs, fsys>>

\* ----------------------------------------------------------- zero values
EmptyStatus ==
    [Phase |-> "", CurrentKeyID |-> "", PreviousKeyID |-> "", CurrentKeyFingerprint |-> <<>>,
     LastRotation |-> NilTime, NextRotation |-> NilTime]

NilKeyPair ==
    [nil |-> TRUE, KeyID |-> "", PrivateKey |-> 0, PublicKey |-> 0, Algorithm |-> "",
     CreatedAt |-> ZeroTime, rawPrivateBytes |-> 0]

NilResult ==
    [nil |-> TRUE, Rotated |-> FALSE, KeyID |-> "", RotationTime |-> ZeroTime,
     NextRotation |-> ZeroTime, Fingerprint |-> <<>>]

NoSecret == [exists |-> FALSE, keyID |-> "", data |-> {}, type |-> ""]

NoResult == [returned |-> FALSE, RequeueAfter |-> 0, err |-> ""]

\* A path is a root flag and its segments ("" has neither); an endpoint is its
\* scheme prefix followed by the rest of the URL ("" is <<>>).
EmptyPath == [abs |-> FALSE, segs |-> <<>>]
NilTLS == [nil |-> TRUE, InsecureSkipVerify |-> FALSE]
NoTarget == [Type |-> "", path |-> EmptyPath, endpoint |-> <<>>, TLS |-> NilTLS]

\* context.Background(): a context that is not cancelled. A cancelled context keeps
\* the position of EnsureKey and the publisher calls made when it was cancelled.
Background == [done |-> FALSE, at |-> "", pubCalls |-> <<>>]

\* No concurrent invocation, and no directory.
NoProcs == <<>>
NoFiles == <<>>

NoFnIn ==
    [fn |-> "", ks |-> [Algorithm |-> "", Params |-> [curve |-> "", keySize |-> ""],
                        AllowLegacyKeySize |-> FALSE],
     enc |-> "", interval |-> 0, grace |-> 0,
     target |-> NoTarget, kp |-> NilKeyPair, format |-> "", password |-> ""]

NoFnOut ==
    [validate |-> [warnings |-> <<>>, err |-> ""], admit |-> [warnings |-> <<>>, err |-> ""],
     gen |-> [kp |-> NilKeyPair, err |-> "", alloc |-> {}, randReads |-> 0],
     kp |-> NilKeyPair, heap |-> {}, fp |-> <<>>, stored |-> <<>>, after |-> <<>>,
     policy |-> "",
     pub |-> [err |-> "", ops |-> <<>>], twin |-> [err |-> "", ops |-> <<>>],
     response |-> [err |-> FALSE, status |-> 0],
     render |-> [data |-> {}, err |-> ""],
     used |-> [call |-> "", fp |-> [fp |-> <<>>, err |-> ""],
               render |-> [data |-> {}, err |-> ""], pub |-> [err |-> "", ops |-> <<>>]]]

\* ------------------------------------------------------------ pure functions
\* metav1.Time.IsZero: a nil pointer or the zero time.
IsZero(t) == t = NilTime \/ t = ZeroTime

\* time.Time.Add and time.Time.After
Add(t, d) == t + d
After(t, u) == t > u

\* rotation.checkRotationNeeded, with time.Now() passed in as t
checkRotationNeeded_NoDisable(st, interval, t) ==
    IF st.CurrentKeyID = "" \/ IsZero(st.LastRotation)
    THEN [rotate |-> TRUE, reason |-> "initial key generation"]
    ELSE IF After(t, Add(st.LastRotation, interval))
         THEN [rotate |-> TRUE, reason |-> "interval expired"]
         ELSE [rotate |-> FALSE, reason |-> ""]

checkRotationNeeded_AtDue(st, interval, t) ==
    IF st.CurrentKeyID = "" \/ IsZero(st.LastRotation)
    THEN [rotate |-> TRUE, reason |-> "initial key generation"]
    ELSE IF interval = 0
         THEN [rotate |-> FALSE, reason |-> "rotation disabled (interval=0)"]
         ELSE IF t >= Add(st.LastRotation, interval)
              THEN [rotate |-> TRUE, reason |-> "interval expired"]
              ELSE [rotate |-> FALSE, reason |-> ""]

checkRotationNeeded_KeyOnly(st, interval, t) ==
    IF st.CurrentKeyID = ""
    THEN [rotate |-> TRUE, reason |-> "initial key generation"]
    ELSE IF interval = 0
         THEN [rotate |-> FALSE, reason |-> "rotation disabled (interval=0)"]
         ELSE IF st.LastRotation # NilTime /\ After(t, Add(st.LastRotation, interval))
              THEN [rotate |-> TRUE, reason |-> "interval expired"]
              ELSE [rotate |-> FALSE, reason |-> ""]

checkRotationNeeded(st, interval, t) ==
    IF st.CurrentKeyID = "" \/ IsZero(st.LastRotation)
    THEN [rotate |-> TRUE, reason |-> "initial key generation"]
    ELSE IF interval = 0
         THEN [rotate |-> FALSE, reason |-> "rotation disabled (interval=0)"]
         ELSE IF After(t, Add(st.LastRotation, interval))
              THEN [rotate |-> TRUE, reason |-> "interval expired"]
              ELSE [rotate |-> FALSE, reason |-> ""]

\* calculateNextRotation without the sentinel for a disabled rotation.
calculateNextRotation_NoSentinel(lastRot, interval) == Add(lastRot, interval)

\* rotation.calculateNextRotation
calculateNextRotation(lastRot, interval) ==
    IF interval = 0 THEN ZeroTime ELSE Add(lastRot, interval)

\* strconv.Atoi on the key-size strings the model uses
Atoi(s) ==
    CASE s = "1024" -> [err |-> FALSE, n |-> 1024]
      [] s = "2048" -> [err |-> FALSE, n |-> 2048]
      [] s = "3072" -> [err |-> FALSE, n |-> 3072]
      [] s = "4096" -> [err |-> FALSE, n |-> 4096]
      [] s = "+4096" -> [err |-> FALSE, n |-> 4096]
      [] s = "8192" -> [err |-> FALSE, n |-> 8192]
      [] OTHER -> [err |-> TRUE, n |-> 0]

\* crypto.validateEC
validateEC(params) ==
    IF params.curve = "" THEN [warnings |-> <<>>, err |-> "EC algorithm requires 'curve' parameter"]
    ELSE IF params.curve \notin validCurves THEN [warnings |-> <<>>, err |-> "unsupported EC curve"]
    ELSE [warnings |-> <<>>, err |-> ""]

\* validateRSA without the legacy opt-in gate below the recommended size.
validateRSA_NoLegacyGate(params, allowLegacy) ==
    IF params.keySize = ""
    THEN [warnings |-> <<>>, err |-> "RSA algorithm requires 'keySize' parameter"]
    ELSE LET a == Atoi(params.keySize) IN
         IF a.err THEN [warnings |-> <<>>, err |-> "invalid RSA keySize"]
         ELSE IF a.n \notin validRSAKeySizes THEN [warnings |-> <<>>, err |-> "unsupported RSA keySize"]
         ELSE IF a.n < RSAMinKeySize THEN [warnings |-> <<>>, err |-> "below absolute minimum"]
         ELSE IF a.n < RSARecommendedMinKeySize
              THEN [warnings |-> <<"deprecated per BSI TR-02102-1">>, err |-> ""]
              ELSE [warnings |-> <<>>, err |-> ""]

\* crypto.validateRSA
validateRSA(params, allowLegacy) ==
    IF params.keySize = ""
    THEN [warnings |-> <<>>, err |-> "RSA algorithm requires 'keySize' parameter"]
    ELSE LET a == Atoi(params.keySize) IN
         IF a.err THEN [warnings |-> <<>>, err |-> "invalid RSA keySize"]
         ELSE IF a.n \notin validRSAKeySizes THEN [warnings |-> <<>>, err |-> "unsupported RSA keySize"]
         ELSE IF a.n < RSAMinKeySize THEN [warnings |-> <<>>, err |-> "below absolute minimum"]
         ELSE IF a.n < RSARecommendedMinKeySize
              THEN IF ~allowLegacy
                   THEN [warnings |-> <<>>, err |-> "deprecated per BSI TR-02102-1"]
                   ELSE [warnings |-> <<"deprecated per BSI TR-02102-1">>, err |-> ""]
              ELSE [warnings |-> <<>>, err |-> ""]

\* crypto.ValidateKeySpec
ValidateKeySpec(algorithm, params, allowLegacy) ==
    CASE algorithm = AlgorithmEC -> validateEC(params)
      [] algorithm = AlgorithmRSA -> validateRSA(params, allowLegacy)
      [] OTHER -> [warnings |-> <<>>, err |-> "unsupported algorithm"]

\* ComputeFingerprint returning the bare digest.
ComputeFingerprint_NoPrefix(pubKey, marshalOK) ==
    IF pubKey = 0 THEN [fp |-> <<>>, err |-> "public key is nil"]
    ELSE IF ~marshalOK THEN [fp |-> <<>>, err |-> "marshal public key to DER"]
    ELSE [fp |-> <<"", pubKey>>, err |-> ""]

\* crypto.ComputeFingerprint; marshalOK is whether x509.MarshalPKIXPublicKey
\* accepts the key.  The digest of public key m is written <<FingerprintPrefix, m>>.
ComputeFingerprint(pubKey, marshalOK) ==
    IF pubKey = 0 THEN [fp |-> <<>>, err |-> "public key is nil"]
    ELSE IF ~marshalOK THEN [fp |-> <<>>, err |-> "marshal public key to DER"]
    ELSE [fp |-> <<FingerprintPrefix, pubKey>>, err |-> ""]

\* pemEncoder.EncodePrivate / EncodePublic: a PEM block around the DER of the key
EncodePrivate(key) ==
    IF key = 0 THEN [pem |-> <<>>, err |-> "marshal private key to PKCS8"]
    ELSE [pem |-> <<"PRIVATE KEY", key>>, err |-> ""]

EncodePublic(key) ==
    IF key = 0 THEN [pem |-> <<>>, err |-> "marshal public key to PKIX"]
    ELSE [pem |-> <<"PUBLIC KEY", key>>, err |-> ""]

\* renderJKS falling back to a default password.
renderJKS_DefaultPassword(k, password) ==
    [data |-> {<<"keystore.jks", <<"JKS", k.PrivateKey, k.PublicKey>>>>}, err |-> ""]

\* output.defaultRenderer.renderJKS, up to the password check
renderJKS(k, password) ==
    IF password = "" THEN [data |-> {}, err |-> "password is required for JKS format"]
    ELSE [data |-> {<<"keystore.jks", <<"JKS", k.PrivateKey, k.PublicKey>>>>}, err |-> ""]

\* output.defaultRenderer.Render: the bundle is a set of <<file name, content>>
Render(k, format, password) ==
    IF k.nil THEN [data |-> {}, err |-> "cannot render nil KeyPair"]
    ELSE LET priv == EncodePrivate(k.PrivateKey)
             pub  == EncodePublic(k.PublicKey)
         IN  IF priv.err # "" THEN [data |-> {}, err |-> "failed to encode private key"]
             ELSE IF pub.err # "" THEN [data |-> {}, err |-> "failed to encode public key"]
             ELSE CASE format = FormatSplitPEM ->
                         [data |-> {<<"tls.key", priv.pem>>, <<"tls.crt", pub.pem>>,
                                    <<"public.pem", pub.pem>>}, err |-> ""]
                    [] format = FormatSinglePEM ->
                         [data |-> {<<"keypair.pem", <<priv.pem, pub.pem>>>>}, err |-> ""]
                    [] format = FormatJKS -> renderJKS(k, password)
                    [] OTHER -> [data |-> {}, err |-> "unsupported output format"]

\* needsStatusUpdate comparing the key ID only.
needsStatusUpdate_KeyIDOnly(st, r) == st.CurrentKeyID # r.KeyID

\* KeyProfileReconciler.needsStatusUpdate
needsStatusUpdate(st, r) ==
    \/ st.CurrentKeyID # r.KeyID
    \/ st.CurrentKeyFingerprint # r.Fingerprint
    \/ st.LastRotation = NilTime \/ st.LastRotation # r.RotationTime
    \/ st.NextRotation = NilTime \/ st.NextRotation # r.NextRotation
    \/ st.Phase = ""

\* Wipe clearing the private key only.
WipedKeyPair_KeepsPublic(k) ==
    IF k.nil THEN k
    ELSE [k EXCEPT !.rawPrivateBytes = 0, !.PrivateKey = 0]

\* KeyPair.Wipe: the KeyPair after the call (nil stays nil)
WipedKeyPair(k) ==
    IF k.nil THEN k
    ELSE [k EXCEPT !.rawPrivateBytes = 0, !.PrivateKey = 0, !.PublicKey = 0]


\* ---------------------------------------------------------------- initial state
\* The controller starts on a profile that is new, or that an earlier run (or a
\* manual edit of the status, rotation/manager.go:182) left behind.
InitStatuses(interval) ==
    { EmptyStatus,
      [Phase |-> "Active", CurrentKeyID |-> "k1", PreviousKeyID |-> "",
       CurrentKeyFingerprint |-> <<FingerprintPrefix, 1>>,
       LastRotation |-> 1, NextRotation |-> calculateNextRotation(1, interval)],
      [Phase |-> "Active", CurrentKeyID |-> "k1", PreviousKeyID |-> "",
       CurrentKeyFingerprint |-> <<FingerprintPrefix, 1>>,
       LastRotation |-> NilTime, NextRotation |-> NilTime],
      [Phase |-> "Active", CurrentKeyID |-> "", PreviousKeyID |-> "", CurrentKeyFingerprint |-> <<>>,
       LastRotation |-> 1, NextRotation |-> calculateNextRotation(1, interval)] }

SecretFor(k, format, data) ==
    [exists |-> TRUE, keyID |-> k.KeyID, data |-> data,
     type |-> IF format = FormatSplitPEM THEN "kubernetes.io/tls" ELSE "Opaque"]

\* The initial states with rotation.triggerOnStartup drawn from startup.
InitOf(startup) ==
    /\ spec \in [Interval : Intervals, Publish : TargetLists, KeySpec : KeySpecs, Format : Formats,
                 TriggerOnStartup : startup]
    /\ status \in InitStatuses(spec.Interval)
    /\ secret = IF status.CurrentKeyID = "" THEN NoSecret
                ELSE [exists |-> TRUE, keyID |-> status.CurrentKeyID,
                      data |-> {<<"tls.key", <<"PRIVATE KEY", 1>>>>, <<"tls.crt", <<"PUBLIC KEY", 1>>>>,
                                <<"public.pem", <<"PUBLIC KEY", 1>>>>},
                      type |-> "kubernetes.io/tls"]
    /\ published = {}
    /\ now = 1
    /\ pc = "idle"
    /\ profile = EmptyStatus
    /\ fetched = EmptyStatus
    /\ needsRotation = FALSE
    /\ decidedAt = ZeroTime
    /\ kp = NilKeyPair
    /\ heap = {}
    /\ fingerprint = <<>>
    /\ pubIdx = 1
    /\ errs = <<>>
    /\ outcome = <<>>
    /\ pubCalls = <<>>
    /\ pubErr = <<>>
    /\ writeCalls = 0
    /\ steps = <<>>
    /\ res = NilResult
    /\ ekErr = ""
    /\ updates = 0
    /\ requeueAt = ZeroTime
    /\ result = NoResult
    /\ runs = 0
    /\ unpersisted = {}
    /\ fnIn = NoFnIn
    /\ fnOut = NoFnOut
    /\ fnPc = "off"
    /\ ctx = Background
    /\ procs = NoProcs
    /\ fsys = NoFiles

\* Profiles that leave rotation.triggerOnStartup at its default.
Init == InitOf({FALSE})

\* -------------------------------------------------------------------- the clock
\* The clock is read by checkRotationNeeded, by Generate, after Write and by
\* time.Until; it advances between Reconcile calls and before the last two reads.
Tick ==
    /\ pc \in {"idle", "persist", "requeue"}
    /\ now < MaxTime
    /\ now' = now + 1
    /\ UNCHANGED <<runs, unpersisted, fnVars, ctx, concVars>>
    /\ UNCHANGED <<spec, status, secret, published, pc, profile, fetched, needsRotation,
                   decidedAt, kp, heap, fingerprint, pubIdx, errs, outcome, pubCalls, pubErr,
                   writeCalls, steps, res, ekErr, updates, requeueAt, result>>

\* ------------------------------------------------------------------- Reconcile
\* The locals of a fresh Reconcile call.
FreshLocals ==
    /\ needsRotation' = FALSE
    /\ decidedAt' = ZeroTime
    /\ kp' = NilKeyPair
    /\ heap' = {}
    /\ fingerprint' = <<>>
    /\ pubIdx' = 1
    /\ errs' = <<>>
    /\ outcome' = <<>>
    /\ pubCalls' = <<>>
    /\ pubErr' = <<>>
    /\ writeCalls' = 0
    /\ steps' = <<>>
    /\ res' = NilResult
    /\ ekErr' = ""
    /\ updates' = 0
    /\ requeueAt' = ZeroTime
    /\ runs' = runs + 1

\* Reconcile, step 1: r.Get succeeds.
ReconcileGet ==
    /\ pc = "idle"
    /\ runs < MaxReconciles
    /\ FreshLocals
    /\ pc' = "decide"
    /\ profile' = status
    /\ fetched' = status
    /\ result' = NoResult
    /\ ctx' = Background
    /\ UNCHANGED <<spec, status, secret, published, now, unpersisted, fnVars, concVars>>

\* Reconcile, step 1: r.Get fails; a not-found error is ignored.
ReconcileGetErr ==
    /\ pc = "idle"
    /\ runs < MaxReconciles
    /\ FreshLocals
    /\ profile' = EmptyStatus
    /\ fetched' = status
    /\ \E e \in {"", "get"} : result' = [returned |-> TRUE, RequeueAfter |-> 0, err |-> e]
    /\ ctx' = Background
    /\ UNCHANGED <<spec, status, secret, published, now, pc, unpersisted, fnVars, concVars>>

\* ------------------------------------------------------------------- EnsureKey
\* EnsureKey, step 1: checkRotationNeeded; without rotation the current state is returned.
EK_Decide ==
    /\ pc = "decide"
    /\ LET d == checkRotationNeeded(profile, spec.Interval, now) IN
       /\ needsRotation' = d.rotate
       /\ decidedAt' = now
       /\ steps' = Append(steps, "decide")
       /\ IF ~d.rotate
          THEN /\ res' = [nil |-> FALSE, Rotated |-> FALSE, KeyID |-> profile.CurrentKeyID,
                          RotationTime |-> profile.LastRotation,
                          NextRotation |-> calculateNextRotation(profile.LastRotation, spec.Interval),
                          Fingerprint |-> profile.CurrentKeyFingerprint]
               /\ pc' = "status"
          ELSE /\ res' = res
               /\ pc' = "generate"
    /\ UNCHANGED <<runs, unpersisted, fnVars, ctx, concVars>>
    /\ UNCHANGED <<spec, status, secret, published, now, profile, fetched, kp, heap, fingerprint,
                   pubIdx, errs, outcome, pubCalls, pubErr, writeCalls, ekErr, updates,
                   requeueAt, result>>

\* The private key object (its scalar D, and for RSA its prime factors) and the DER
\* buffer retained for Wipe.
Scalar(m) == [kind |-> "D", key |-> m]
Primes(m) == [kind |-> "primes", key |-> m]
RawBuf(m) == [kind |-> "raw", key |-> m]

\* What can happen inside generateEC / generateRSA once validation has passed.
GenOutcomes(alg) ==
    IF alg = AlgorithmEC THEN {"ok", "rand_fail", "marshal_fail", "keyid_fail"}
    ELSE {"ok", "rand_fail", "keyid_fail"}

\* crypto.parseCurve
parseCurve(name) ==
    CASE name = "P-256" -> [curve |-> "P-256", err |-> ""]
      [] name = "P-384" -> [curve |-> "P-384", err |-> ""]
      [] name = "P-521" -> [curve |-> "P-521", err |-> ""]
      [] OTHER -> [curve |-> "", err |-> "unsupported curve"]

\* A failed Generate: no KeyPair; alloc is the private material left in memory and
\* randReads the number of reads of crypto/rand.Reader.
GenFailed(e, alloc, reads) == [kp |-> NilKeyPair, err |-> e, alloc |-> alloc, randReads |-> reads]

\* crypto.generateEC: m is the key ecdsa.GenerateKey draws, id the key ID, o the outcome
\* of the library calls, t the clock.
generateEC(params, m, id, o, t) ==
    IF parseCurve(params.curve).err # "" THEN GenFailed("unsupported curve", {}, 0)
    ELSE CASE o = "rand_fail" -> GenFailed("EC key generation failed", {}, 1)
           [] o = "marshal_fail" -> GenFailed("EC key marshal failed", {Scalar(m)}, 1)
           [] o = "keyid_fail" -> GenFailed("key ID generation failed", {Scalar(m), RawBuf(m)}, 2)
           [] OTHER -> [kp |-> [nil |-> FALSE, KeyID |-> id, PrivateKey |-> m, PublicKey |-> m,
                                Algorithm |-> AlgorithmEC, CreatedAt |-> t, rawPrivateBytes |-> m],
                        err |-> "", alloc |-> {Scalar(m), RawBuf(m)}, randReads |-> 2]

\* crypto.generateRSA
generateRSA(params, m, id, o, t) ==
    IF Atoi(params.keySize).err THEN GenFailed("invalid key size", {}, 0)
    ELSE CASE o = "rand_fail" -> GenFailed("RSA key generation failed", {}, 1)
           [] o = "keyid_fail" ->
                GenFailed("key ID generation failed", {Scalar(m), Primes(m), RawBuf(m)}, 2)
           [] OTHER -> [kp |-> [nil |-> FALSE, KeyID |-> id, PrivateKey |-> m, PublicKey |-> m,
                                Algorithm |-> AlgorithmRSA, CreatedAt |-> t, rawPrivateBytes |-> m],
                        err |-> "", alloc |-> {Scalar(m), Primes(m), RawBuf(m)}, randReads |-> 2]

\* Generate without the call of ValidateKeySpec.
Generate_NoValidate(opts, m, id, o, t) ==
    CASE opts.Algorithm = AlgorithmEC -> generateEC(opts.Params, m, id, o, t)
      [] opts.Algorithm = AlgorithmRSA -> generateRSA(opts.Params, m, id, o, t)
      [] OTHER -> GenFailed("unsupported algorithm", {}, 0)

\* defaultGenerator.Generate: ValidateKeySpec first, then the generator of the algorithm.
Generate(opts, m, id, o, t) ==
    IF ValidateKeySpec(opts.Algorithm, opts.Params, opts.AllowLegacyKeySize).err # ""
    THEN GenFailed("key spec validation failed", {}, 0)
    ELSE CASE opts.Algorithm = AlgorithmEC -> generateEC(opts.Params, m, id, o, t)
           [] opts.Algorithm = AlgorithmRSA -> generateRSA(opts.Params, m, id, o, t)
           [] OTHER -> GenFailed("unsupported algorithm", {}, 0)

\* GenerateOptions without the legacy opt-in of the key spec.
GenerateOptions_NoLegacy(ks) ==
    [Algorithm |-> ks.Algorithm, Params |-> ks.Params, AllowLegacyKeySize |-> FALSE]

\* The crypto.GenerateOptions EnsureKey builds from the profile's key spec.
GenerateOptions(ks) ==
    [Algorithm |-> ks.Algorithm, Params |-> ks.Params, AllowLegacyKeySize |-> ks.AllowLegacyKeySize]

\* EK_Generate without the return on a failed Generate.
EK_Generate_NoReturn ==
    /\ pc = "generate"
    /\ steps' = Append(steps, "generate")
    /\ \E m \in Materials, id \in KeyIDs, o \in GenOutcomes(spec.KeySpec.Algorithm) :
         LET g == Generate(GenerateOptions(spec.KeySpec), m, id, o, now) IN
         /\ kp' = g.kp
         /\ heap' = heap \cup g.alloc
         /\ IF g.err # ""
            THEN /\ ekErr' = "keygen"
                 /\ pc' = "publish"
            ELSE /\ ekErr' = ekErr
                 /\ pc' = "fingerprint"
    /\ UNCHANGED <<runs, unpersisted, fnVars, ctx, concVars>>
    /\ UNCHANGED <<spec, status, secret, published, now, profile, fetched, needsRotation,
                   decidedAt, fingerprint, pubIdx, errs, outcome, pubCalls, pubErr, writeCalls,
                   res, updates, requeueAt, result>>

\* EnsureKey, step 2: keygen.Generate (ValidateKeySpec, generateEC / generateRSA) and
\* the registration of the deferred Wipe.
EK_Generate ==
    /\ pc = "generate"
    /\ steps' = Append(steps, "generate")
    /\ \E m \in Materials, id \in KeyIDs, o \in GenOutcomes(spec.KeySpec.Algorithm) :
         LET g == Generate(GenerateOptions(spec.KeySpec), m, id, o, now) IN
         /\ kp' = g.kp
         /\ heap' = heap \cup g.alloc
         /\ IF g.err # ""
            THEN /\ ekErr' = "keygen"
                 /\ pc' = "ensure_err"
            ELSE /\ ekErr' = ekErr
                 /\ pc' = "fingerprint"
    /\ UNCHANGED <<runs, unpersisted, fnVars, ctx, concVars>>
    /\ UNCHANGED <<spec, status, secret, published, now, profile, fetched, needsRotation,
                   decidedAt, fingerprint, pubIdx, errs, outcome, pubCalls, pubErr, writeCalls,
                   res, updates, requeueAt, result>>

\* EK_Fingerprint with Wipe called before the fingerprint is taken.
EK_Fingerprint_AfterWipe ==
    /\ pc = "fingerprint"
    /\ steps' = Append(Append(steps, "wipe"), "fingerprint")
    /\ kp' = WipedKeyPair(kp)
    /\ heap' = heap \ {[kind |-> "D", key |-> kp.PrivateKey], [kind |-> "raw", key |-> kp.rawPrivateBytes]}
    /\ \E marshalOK \in BOOLEAN :
         LET f == ComputeFingerprint(kp'.PublicKey, marshalOK) IN
         IF f.err # ""
         THEN /\ ekErr' = "fingerprint"
              /\ fingerprint' = fingerprint
              /\ pc' = "ensure_err"
         ELSE /\ ekErr' = ekErr
              /\ fingerprint' = f.fp
              /\ pc' = "publish"
    /\ UNCHANGED <<runs, unpersisted, fnVars, ctx, concVars>>
    /\ UNCHANGED <<spec, status, secret, published, now, profile, fetched, needsRotation,
                   decidedAt, pubIdx, errs, outcome, pubCalls, pubErr, writeCalls,
                   res, updates, requeueAt, result>>

\* EnsureKey: crypto.ComputeFingerprint(kp.PublicKey)
EK_Fingerprint ==
    /\ pc = "fingerprint"
    /\ steps' = Append(steps, "fingerprint")
    /\ \E marshalOK \in BOOLEAN :
         LET f == ComputeFingerprint(kp.PublicKey, marshalOK) IN
         IF f.err # ""
         THEN /\ ekErr' = "fingerprint"
              /\ fingerprint' = fingerprint
              /\ pc' = "wipe"
         ELSE /\ ekErr' = ekErr
              /\ fingerprint' = f.fp
              /\ pc' = "publish"
    /\ UNCHANGED <<runs, unpersisted, fnVars, ctx, concVars>>
    /\ UNCHANGED <<spec, status, secret, published, now, profile, fetched, needsRotation,
                   decidedAt, kp, heap, pubIdx, errs, outcome, pubCalls, pubErr, writeCalls,
                   res, updates, requeueAt, result>>

\* ------------------------------------------------------------------ PublishAll
\* The error PublishAll records for target i (0-based in the message) of type t.
TargetError(i, t, kind) == [index |-> i - 1, type |-> t, kind |-> kind]

\* PublishTarget leaving the loop at the first target that fails.
PublishTarget_AbortOnFailure ==
    /\ pc = "publish"
    /\ pubIdx <= Len(spec.Publish)
    /\ LET t == spec.Publish[pubIdx].Type IN
       IF t \notin publishers
       THEN /\ errs' = Append(errs, TargetError(pubIdx, t, "unknown publisher type"))
            /\ outcome' = Append(outcome, "unknown")
            /\ pubCalls' = pubCalls
            /\ published' = published
            /\ pubIdx' = Len(spec.Publish) + 1
       ELSE /\ pubCalls' = Append(pubCalls, pubIdx)
            /\ \E ok \in BOOLEAN :
                 IF ok
                 THEN /\ published' = published \cup {<<pubIdx, kp.KeyID>>}
                      /\ errs' = errs
                      /\ outcome' = Append(outcome, "ok")
                      /\ pubIdx' = pubIdx + 1
                 ELSE /\ published' = published
                      /\ errs' = Append(errs, TargetError(pubIdx, t, "failed"))
                      /\ outcome' = Append(outcome, "failed")
                      /\ pubIdx' = Len(spec.Publish) + 1
    /\ UNCHANGED <<runs, unpersisted, fnVars, ctx, concVars>>
    /\ UNCHANGED <<spec, status, secret, now, pc, profile, fetched, needsRotation, decidedAt,
                   kp, heap, fingerprint, pubErr, writeCalls, steps, res, ekErr, updates,
                   requeueAt, result>>

\* Manager.PublishAll, one iteration of the loop over targets: an unknown type is
\* recorded and skipped, a known publisher is invoked and its failure recorded.
PublishTarget ==
    /\ pc = "publish"
    /\ pubIdx <= Len(spec.Publish)
    /\ LET t == spec.Publish[pubIdx].Type IN
       IF t \notin publishers
       THEN /\ errs' = Append(errs, TargetError(pubIdx, t, "unknown publisher type"))
            /\ outcome' = Append(outcome, "unknown")
            /\ pubCalls' = pubCalls
            /\ published' = published
       ELSE /\ pubCalls' = Append(pubCalls, pubIdx)
            /\ \E ok \in BOOLEAN :
                 IF ok
                 THEN /\ published' = published \cup {<<pubIdx, kp.KeyID>>}
                      /\ errs' = errs
                      /\ outcome' = Append(outcome, "ok")
                 ELSE /\ published' = published
                      /\ errs' = Append(errs, TargetError(pubIdx, t, "failed"))
                      /\ outcome' = Append(outcome, "failed")
    /\ pubIdx' = pubIdx + 1
    /\ UNCHANGED <<runs, unpersisted, fnVars, ctx, concVars>>
    /\ UNCHANGED <<spec, status, secret, now, pc, profile, fetched, needsRotation, decidedAt,
                   kp, heap, fingerprint, pubErr, writeCalls, steps, res, ekErr, updates,
                   requeueAt, result>>

\* PublishAllReturn refusing an empty target list.
PublishAllReturn_RequireTarget ==
    /\ pc = "publish"
    /\ pubIdx > Len(spec.Publish)
    /\ pubErr' = IF Len(errs) > 0 THEN <<"publish errors", errs>>
                 ELSE IF Len(spec.Publish) = 0 THEN <<"publish errors", <<>>>> ELSE <<>>
    /\ steps' = Append(steps, "publish")
    /\ pc' = "published"
    /\ UNCHANGED <<runs, unpersisted, fnVars, ctx, concVars>>
    /\ UNCHANGED <<spec, status, secret, published, now, profile, fetched, needsRotation,
                   decidedAt, kp, heap, fingerprint, pubIdx, errs, outcome, pubCalls,
                   writeCalls, res, ekErr, updates, requeueAt, result>>

\* PublishAllReturn reporting only the first collected error.
PublishAllReturn_FirstOnly ==
    /\ pc = "publish"
    /\ pubIdx > Len(spec.Publish)
    /\ pubErr' = IF Len(errs) > 0 THEN <<"publish errors", <<errs[1]>>>> ELSE <<>>
    /\ steps' = Append(steps, "publish")
    /\ pc' = "published"
    /\ UNCHANGED <<runs, unpersisted, fnVars, ctx, concVars>>
    /\ UNCHANGED <<spec, status, secret, published, now, profile, fetched, needsRotation,
                   decidedAt, kp, heap, fingerprint, pubIdx, errs, outcome, pubCalls,
                   writeCalls, res, ekErr, updates, requeueAt, result>>

\* Manager.PublishAll, after the loop: nil, or one error wrapping the collected errs.
PublishAllReturn ==
    /\ pc = "publish"
    /\ pubIdx > Len(spec.Publish)
    /\ pubErr' = IF Len(errs) > 0 THEN <<"publish errors", errs>> ELSE <<>>
    /\ steps' = Append(steps, "publish")
    /\ pc' = "published"
    /\ UNCHANGED <<runs, unpersisted, fnVars, ctx, concVars>>
    /\ UNCHANGED <<spec, status, secret, published, now, profile, fetched, needsRotation,
                   decidedAt, kp, heap, fingerprint, pubIdx, errs, outcome, pubCalls,
                   writeCalls, res, ekErr, updates, requeueAt, result>>

\* EK_CheckPublish with the error of PublishAll dropped.
EK_CheckPublish_IgnoreErr ==
    /\ pc = "published"
    /\ ekErr' = ekErr
    /\ pc' = "persist"
    /\ UNCHANGED <<runs, unpersisted, fnVars, ctx, concVars>>
    /\ UNCHANGED <<spec, status, secret, published, now, profile, fetched, needsRotation,
                   decidedAt, kp, heap, fingerprint, pubIdx, errs, outcome, pubCalls, pubErr,
                   writeCalls, steps, res, updates, requeueAt, result>>

\* EnsureKey, step 3: the check of PublishAll's error.
EK_CheckPublish ==
    /\ pc = "published"
    /\ IF pubErr # <<>>
       THEN /\ ekErr' = "publish"
            /\ pc' = "wipe"
       ELSE /\ ekErr' = ekErr
            /\ pc' = "persist"
    /\ UNCHANGED <<runs, unpersisted, fnVars, ctx, concVars>>
    /\ UNCHANGED <<spec, status, secret, published, now, profile, fetched, needsRotation,
                   decidedAt, kp, heap, fingerprint, pubIdx, errs, outcome, pubCalls, pubErr,
                   writeCalls, steps, res, updates, requeueAt, result>>

\* The outcomes of a request the client sends with context c: it succeeds or fails,
\* and fails once c is cancelled.
APICall(c) == IF c.done THEN {FALSE} ELSE BOOLEAN

\* The key PublishAll has just delivered, if the profile has any publish target.
Delivered == IF Len(spec.Publish) > 0 THEN {<<kp.KeyID, kp.PublicKey>>} ELSE {}

\* EK_Persist returning the rotation result although the Secret was not written.
EK_Persist_ReportOnFailure ==
    /\ pc = "persist"
    /\ writeCalls' = writeCalls + 1
    /\ steps' = Append(steps, "persist")
    /\ pc' = "wipe"
    /\ LET r == Render(kp, spec.Format, "") IN
       /\ \E applied \in APICall(ctx) :
            IF r.err = "" /\ applied
            THEN /\ secret' = SecretFor(kp, spec.Format, r.data)
                 /\ unpersisted' = unpersisted \ {<<kp.KeyID, kp.PublicKey>>}
            ELSE /\ secret' = secret
                 /\ unpersisted' = unpersisted \cup Delivered
       /\ ekErr' = ekErr
       /\ res' = [nil |-> FALSE, Rotated |-> TRUE, KeyID |-> kp.KeyID,
                  RotationTime |-> now,
                  NextRotation |-> calculateNextRotation(now, spec.Interval),
                  Fingerprint |-> fingerprint]
    /\ UNCHANGED <<runs, fnVars, ctx, concVars>>
    /\ UNCHANGED <<spec, status, published, now, profile, fetched, needsRotation, decidedAt,
                   kp, heap, fingerprint, pubIdx, errs, outcome, pubCalls, pubErr, updates,
                   requeueAt, result>>

\* EnsureKey, step 4: kubeSecretWriter.Write (Render with an empty password, then
\* CreateOrUpdate of the Secret), and on success the RotationResult.
EK_Persist ==
    /\ pc = "persist"
    /\ writeCalls' = writeCalls + 1
    /\ steps' = Append(steps, "persist")
    /\ pc' = "wipe"
    /\ LET r == Render(kp, spec.Format, "") IN
       IF r.err # ""
       THEN /\ ekErr' = "persist"
            /\ secret' = secret
            /\ res' = res
            /\ unpersisted' = unpersisted \cup Delivered
       ELSE \E applied \in APICall(ctx) :
              IF applied
              THEN /\ secret' = SecretFor(kp, spec.Format, r.data)
                   /\ ekErr' = ekErr
                   /\ res' = [nil |-> FALSE, Rotated |-> TRUE, KeyID |-> kp.KeyID,
                              RotationTime |-> now,
                              NextRotation |-> calculateNextRotation(now, spec.Interval),
                              Fingerprint |-> fingerprint]
                   /\ unpersisted' = unpersisted \ {<<kp.KeyID, kp.PublicKey>>}
              ELSE /\ secret' = secret
                   /\ ekErr' = "persist"
                   /\ res' = res
                   /\ unpersisted' = unpersisted \cup Delivered
    /\ UNCHANGED <<runs, fnVars, ctx, concVars>>
    /\ UNCHANGED <<spec, status, published, now, profile, fetched, needsRotation, decidedAt,
                   kp, heap, fingerprint, pubIdx, errs, outcome, pubCalls, pubErr, updates,
                   requeueAt, result>>

\* Wipe without the nil check: the receiver is dereferenced.
Wipe_NoNilGuard(k, h) ==
    IF k.nil THEN [kp |-> k, heap |-> h, panic |-> TRUE]
    ELSE [kp |-> WipedKeyPair(k),
          heap |-> h \ ({RawBuf(k.rawPrivateBytes), Scalar(k.PrivateKey)} \cup
                        IF k.Algorithm = AlgorithmRSA THEN {Primes(k.PrivateKey)} ELSE {}),
          panic |-> FALSE]

\* Wipe clearing the references without zeroing what they point to.
Wipe_RefsOnly(k, h) ==
    IF k.nil THEN [kp |-> k, heap |-> h, panic |-> FALSE]
    ELSE [kp |-> WipedKeyPair(k), heap |-> h, panic |-> FALSE]

\* KeyPair.Wipe on KeyPair k with memory h: the raw buffer is zeroed and dropped, D
\* (and for RSA the primes) of the private key set to zero, the references cleared.
Wipe(k, h) ==
    IF k.nil THEN [kp |-> k, heap |-> h, panic |-> FALSE]
    ELSE [kp |-> WipedKeyPair(k),
          heap |-> h \ ({RawBuf(k.rawPrivateBytes), Scalar(k.PrivateKey)} \cup
                        IF k.Algorithm = AlgorithmRSA THEN {Primes(k.PrivateKey)} ELSE {}),
          panic |-> FALSE]

\* EnsureKey: the deferred kp.Wipe(), run when EnsureKey returns after Generate succeeded.
EK_Wipe ==
    /\ pc = "wipe"
    /\ kp' = Wipe(kp, heap).kp
    /\ heap' = Wipe(kp, heap).heap
    /\ steps' = Append(steps, "wipe")
    /\ pc' = IF ekErr # "" THEN "ensure_err" ELSE "status"
    /\ UNCHANGED <<runs, unpersisted, fnVars, ctx, concVars>>
    /\ UNCHANGED <<spec, status, secret, published, now, profile, fetched, needsRotation,
                   decidedAt, fingerprint, pubIdx, errs, outcome, pubCalls, pubErr, writeCalls,
                   res, ekErr, updates, requeueAt, result>>

\* --------------------------------------------------------- Reconcile, continued
\* ReconcileEnsureErr recording the failure in the stored status.
ReconcileEnsureErr_MarkError ==
    /\ pc = "ensure_err"
    /\ result' = [returned |-> TRUE, RequeueAfter |-> 0, err |-> ekErr]
    /\ status' = [status EXCEPT !.Phase = "Error"]
    /\ pc' = "idle"
    /\ UNCHANGED <<runs, unpersisted, fnVars, ctx, concVars>>
    /\ UNCHANGED <<spec, secret, published, now, profile, fetched, needsRotation,
                   decidedAt, kp, heap, fingerprint, pubIdx, errs, outcome, pubCalls, pubErr,
                   writeCalls, steps, res, ekErr, updates, requeueAt>>

\* Reconcile, step 2: EnsureKey returned an error; it is logged and returned.
ReconcileEnsureErr ==
    /\ pc = "ensure_err"
    /\ result' = [returned |-> TRUE, RequeueAfter |-> 0, err |-> ekErr]
    /\ pc' = "idle"
    /\ UNCHANGED <<runs, unpersisted, fnVars, ctx, concVars>>
    /\ UNCHANGED <<spec, status, secret, published, now, profile, fetched, needsRotation,
                   decidedAt, kp, heap, fingerprint, pubIdx, errs, outcome, pubCalls, pubErr,
                   writeCalls, steps, res, ekErr, updates, requeueAt>>

\* ReconcileStatus going on to the requeue although Status().Update failed.
ReconcileStatus_IgnoreUpdateErr ==
    /\ pc = "status"
    /\ IF needsStatusUpdate(profile, res)
       THEN /\ profile' = [Phase |-> "Active", CurrentKeyID |-> res.KeyID,
                           PreviousKeyID |-> profile.PreviousKeyID,
                           CurrentKeyFingerprint |-> res.Fingerprint,
                           LastRotation |-> res.RotationTime,
                           NextRotation |-> res.NextRotation]
            /\ updates' = updates + 1
            /\ \E ok \in APICall(ctx) :
                 IF ok THEN status' = profile' ELSE status' = status
       ELSE /\ profile' = profile
            /\ updates' = updates
            /\ status' = status
    /\ result' = result
    /\ pc' = "requeue"
    /\ UNCHANGED <<runs, unpersisted, fnVars, ctx, concVars>>
    /\ UNCHANGED <<spec, secret, published, now, fetched, needsRotation, decidedAt, kp, heap,
                   fingerprint, pubIdx, errs, outcome, pubCalls, pubErr, writeCalls, steps,
                   res, ekErr, requeueAt>>

\* Reconcile, step 3: the status is rewritten from the result when it differs.
ReconcileStatus ==
    /\ pc = "status"
    /\ IF needsStatusUpdate(profile, res)
       THEN /\ profile' = [Phase |-> "Active", CurrentKeyID |-> res.KeyID,
                           PreviousKeyID |-> profile.PreviousKeyID,
                           CurrentKeyFingerprint |-> res.Fingerprint,
                           LastRotation |-> res.RotationTime,
                           NextRotation |-> res.NextRotation]
            /\ updates' = updates + 1
            /\ \E ok \in APICall(ctx) :
                 IF ok
                 THEN /\ status' = profile'
                      /\ result' = result
                      /\ pc' = "requeue"
                 ELSE /\ status' = status
                      /\ result' = [returned |-> TRUE, RequeueAfter |-> 0, err |-> "status"]
                      /\ pc' = "idle"
       ELSE /\ profile' = profile
            /\ updates' = updates
            /\ status' = status
            /\ result' = result
            /\ pc' = "requeue"
    /\ UNCHANGED <<runs, unpersisted, fnVars, ctx, concVars>>
    /\ UNCHANGED <<spec, secret, published, now, fetched, needsRotation, decidedAt, kp, heap,
                   fingerprint, pubIdx, errs, outcome, pubCalls, pubErr, writeCalls, steps,
                   res, ekErr, requeueAt>>

\* time.Until(t) at time n
Until(t, n) == t - n

\* RequeueAfter without the clamp of an overdue rotation.
RequeueAfter_NoClamp(nextRotation, n) ==
    IF nextRotation # ZeroTime THEN Until(nextRotation, n) ELSE 0

\* Reconcile, step 4: the requeue delay
RequeueAfter(nextRotation, n) ==
    IF nextRotation # ZeroTime
    THEN IF Until(nextRotation, n) < 0 THEN RetryDelay ELSE Until(nextRotation, n)
    ELSE 0

ReconcileRequeue ==
    /\ pc = "requeue"
    /\ requeueAt' = now
    /\ result' = [returned |-> TRUE, RequeueAfter |-> RequeueAfter(res.NextRotation, now),
                  err |-> ""]
    /\ pc' = "idle"
    /\ UNCHANGED <<runs, unpersisted, fnVars, ctx, concVars>>
    /\ UNCHANGED <<spec, status, secret, published, now, profile, fetched, needsRotation,
                   decidedAt, kp, heap, fingerprint, pubIdx, errs, outcome, pubCalls, pubErr,
                   writeCalls, steps, res, ekErr, updates>>

\* ------------------------------------------------------------- specification
Next ==
    \/ Tick
    \/ ReconcileGet
    \/ ReconcileGetErr
    \/ EK_Decide
    \/ EK_Generate
    \/ EK_Fingerprint
    \/ PublishTarget
    \/ PublishAllReturn
    \/ EK_CheckPublish
    \/ EK_Persist
    \/ EK_Wipe
    \/ ReconcileEnsureErr
    \/ ReconcileStatus
    \/ ReconcileRequeue

Spec == Init /\ [][Next]_vars

\* ------------------------------------------------ cancellation and startup
\* The caller of Reconcile cancels ctx (shutdown of the manager, or a deadline) while
\* Reconcile runs; nothing but ctx changes.
Cancel ==
    /\ pc # "idle"
    /\ ~ctx.done
    /\ ctx' = [done |-> TRUE, at |-> pc, pubCalls |-> pubCalls]
    /\ UNCHANGED <<spec, status, secret, published, now, pc, profile, fetched, needsRotation,
                   decidedAt, kp, heap, fingerprint, pubIdx, errs, outcome, pubCalls, pubErr,
                   writeCalls, steps, res, ekErr, updates, requeueAt, result, runs,
                   unpersisted, fnVars, concVars>>

\* Profiles with either value of rotation.triggerOnStartup, reconciled under a context
\* that may be cancelled.
CtlInit == InitOf(BOOLEAN)

CtlNext ==
    \/ Next
    \/ Cancel

CtlSpec == CtlInit /\ [][CtlNext]_vars

\* ------------------------------------------------- the packages called directly
\* The functions of pkg/crypto and pkg/validation and the key-spec check of the
\* admission webhook, called on arbitrary arguments outside of the controller:
\* ValidateKeySpec, the webhook's check and Generate on one key spec, then
\* ComputeFingerprint and two calls of Wipe on the KeyPair Generate returned; and
\* ValidateRotationPolicy on arbitrary durations.

\* Durations are counted in whole minutes in a signed integer of DurationBits bits
\* (time.Duration is an int64 of nanoseconds); Wrap is the value an arithmetic
\* result has in that integer.
MinDuration == -(2 ^ (DurationBits - 1))
MaxDuration == 2 ^ (DurationBits - 1) - 1
Durations == MinDuration .. MaxDuration
Wrap(x) == ((x - MinDuration) % (2 ^ DurationBits)) + MinDuration

\* validation.ValidateRotationPolicy
ValidateRotationPolicy(interval, gracePeriod) ==
    IF gracePeriod < MinGracePeriod THEN "gracePeriod must be at least 5m"
    ELSE LET minInterval == Wrap(MinIntervalToGraceRatio * gracePeriod) IN
         IF interval < minInterval THEN "interval must be at least 3x gracePeriod"
         ELSE ""

\* KeyProfileCustomValidator.validateKeyProfile, the key-spec check
AdmitKeySpec(ks) == ValidateKeySpec(ks.Algorithm, ks.Params, ks.AllowLegacyKeySize)

\* NewKeyEncoder(encoding).EncodePublic: the stored form of a public key
EncodePublicAs(encoding, key) ==
    CASE encoding = "PEM" -> EncodePublic(key).pem
      [] encoding = "DER" -> <<"DER", key>>
      [] encoding = "JWK" -> <<"JWK", key>>
      [] OTHER -> <<>>

\* ---- the publishers
\* filepath.Clean: "." segments are dropped, ".." removes the segment before it, at
\* the root it is dropped, and at the start of a relative path it is kept.
RECURSIVE CleanSegs(_, _, _)
CleanSegs(abs, segs, stack) ==
    IF segs = <<>> THEN stack
    ELSE LET seg == Head(segs)
             rest == Tail(segs)
         IN  CASE seg = "." -> CleanSegs(abs, rest, stack)
               [] seg = ".." ->
                    IF stack # <<>> /\ stack[Len(stack)] # ".."
                    THEN CleanSegs(abs, rest, SubSeq(stack, 1, Len(stack) - 1))
                    ELSE IF abs THEN CleanSegs(abs, rest, stack)
                         ELSE CleanSegs(abs, rest, Append(stack, ".."))
               [] OTHER -> CleanSegs(abs, rest, Append(stack, seg))

Clean(path) ==
    LET c == CleanSegs(path.abs, path.segs, <<>>)
    IN  [abs |-> path.abs, segs |-> IF ~path.abs /\ c = <<>> THEN <<".">> ELSE c]

\* filepath.IsAbs, and strings.Contains(path, "..")
IsAbs(path) == path.abs
ContainsDotDot(path) == \E i \in DOMAIN path.segs : path.segs[i] \in {"..", "a..b"}

\* strings.HasPrefix on an endpoint
HasPrefix(endpoint, prefix) == Len(endpoint) >= 1 /\ endpoint[1] = prefix

\* What a publisher did: its error and the operations it issued, in order.
Published(e, ops) == [err |-> e, ops |-> ops]

\* FilesystemPublisher.Publish writing the private key to the target.
FilesystemPublish_PrivateKey(target, k, env) ==
    IF target.path = EmptyPath THEN Published("missing 'path' in config", <<>>)
    ELSE LET cleanPath == Clean(target.path)
             pubPEM    == EncodePrivate(k.PrivateKey)
             filename  == [dir |-> cleanPath, name |-> <<k.KeyID, ".pub">>]
             tmpFile   == [dir |-> cleanPath, name |-> <<k.KeyID, ".pub", ".tmp">>]
             mkdir     == <<[op |-> "MkdirAll", file |-> cleanPath, to |-> <<>>, data |-> <<>>]>>
             written   == Append(mkdir, [op |-> "WriteFile", file |-> tmpFile, to |-> <<>>,
                                         data |-> pubPEM.pem])
             renamed   == Append(written, [op |-> "Rename", file |-> tmpFile, to |-> filename,
                                           data |-> <<>>])
             removed   == Append(renamed, [op |-> "Remove", file |-> tmpFile, to |-> <<>>,
                                           data |-> <<>>])
         IN  IF ~IsAbs(cleanPath) THEN Published("publish path must be absolute", <<>>)
             ELSE IF ContainsDotDot(cleanPath) THEN Published("publish path must not contain '..'", <<>>)
             ELSE IF ~env.mkdir THEN Published("failed to ensure directory", mkdir)
             ELSE IF pubPEM.err # "" THEN Published("failed to encode public key", mkdir)
             ELSE IF ~env.write THEN Published("failed to write temp file", written)
             ELSE IF ~env.rename THEN Published("failed to rename", removed)
             ELSE Published("", renamed)

\* FilesystemPublisher.Publish; env tells which of MkdirAll, WriteFile and Rename succeed.
FilesystemPublish(target, k, env) ==
    IF target.path = EmptyPath THEN Published("missing 'path' in config", <<>>)
    ELSE LET cleanPath == Clean(target.path)
             pubPEM    == EncodePublic(k.PublicKey)
             filename  == [dir |-> cleanPath, name |-> <<k.KeyID, ".pub">>]
             tmpFile   == [dir |-> cleanPath, name |-> <<k.KeyID, ".pub", ".tmp">>]
             mkdir     == <<[op |-> "MkdirAll", file |-> cleanPath, to |-> <<>>, data |-> <<>>]>>
             written   == Append(mkdir, [op |-> "WriteFile", file |-> tmpFile, to |-> <<>>,
                                         data |-> pubPEM.pem])
             renamed   == Append(written, [op |-> "Rename", file |-> tmpFile, to |-> filename,
                                           data |-> <<>>])
             removed   == Append(renamed, [op |-> "Remove", file |-> tmpFile, to |-> <<>>,
                                           data |-> <<>>])
         IN  IF ~IsAbs(cleanPath) THEN Published("publish path must be absolute", <<>>)
             ELSE IF ContainsDotDot(cleanPath) THEN Published("publish path must not contain '..'", <<>>)
             ELSE IF ~env.mkdir THEN Published("failed to ensure directory", mkdir)
             ELSE IF pubPEM.err # "" THEN Published("failed to encode public key", mkdir)
             ELSE IF ~env.write THEN Published("failed to write temp file", written)
             ELSE IF ~env.rename THEN Published("failed to rename", removed)
             ELSE Published("", renamed)

\* The POST request HTTPPublisher.Publish builds.
Request(target, k, body) ==
    [op |-> "POST", url |-> target.endpoint, body |-> body,
     header |-> {<<"Content-Type", "application/x-pem-file">>, <<"X-Key-ID", k.KeyID>>},
     insecureSkipVerify |-> ~target.TLS.nil /\ target.TLS.InsecureSkipVerify]

\* HTTPPublisher.Publish without the check of the URL scheme.
HTTPPublish_AnyScheme(target, k, resp) ==
    IF target.endpoint = <<>> THEN Published("missing 'endpoint' in config", <<>>)
    ELSE LET pubPEM == EncodePublic(k.PublicKey) IN
         IF pubPEM.err # "" THEN Published("failed to encode public key", <<>>)
         ELSE LET sent == <<Request(target, k, pubPEM.pem)>> IN
              IF resp.err THEN Published("request failed", sent)
              ELSE IF resp.status >= 400 THEN Published("server returned error", sent)
              ELSE Published("", sent)

\* HTTPPublisher.Publish; resp is what httpClient.Do returns.
HTTPPublish(target, k, resp) ==
    IF target.endpoint = <<>> THEN Published("missing 'endpoint' in config", <<>>)
    ELSE LET isInsecure == ~target.TLS.nil /\ target.TLS.InsecureSkipVerify IN
         IF ~HasPrefix(target.endpoint, "https://") /\ ~isInsecure
         THEN Published("endpoint must use HTTPS", <<>>)
         ELSE LET pubPEM == EncodePublic(k.PublicKey) IN
              IF pubPEM.err # "" THEN Published("failed to encode public key", <<>>)
              ELSE LET sent == <<Request(target, k, pubPEM.pem)>> IN
                   IF resp.err THEN Published("request failed", sent)
                   ELSE IF resp.status >= 400 THEN Published("server returned error", sent)
                   ELSE Published("", sent)

PathSegments == {"keys", "..", ".", "a..b"}
FnPaths == {[abs |-> a, segs |-> sg] : a \in BOOLEAN, sg \in SeqsUpTo(PathSegments, MaxSegments)}
FnEndpoints == {<<>>, <<"https://", "vault">>, <<"http://", "vault">>, <<"HTTPS://", "vault">>}
FnTLS == {NilTLS, [nil |-> FALSE, InsecureSkipVerify |-> FALSE],
          [nil |-> FALSE, InsecureSkipVerify |-> TRUE]}
Responses ==
    {[err |-> TRUE, status |-> 0]} \cup
    {[err |-> FALSE, status |-> c] : c \in {200, 204, 302, 399, 400, 404, 500}}
FsEnvs == [mkdir : BOOLEAN, write : BOOLEAN, rename : BOOLEAN]

\* The formats of the KeyProfile schema (OutputConfig.Format), and the formats Render
\* is called with.
SchemaFormats == {"split-pem", "bundle-json", "jwks"}
FnFormats == SchemaFormats \cup {FormatSinglePEM, FormatJKS, ""}
Passwords == {"", "changeit"}

\* The KeyPairs Generate returns for an EC P-256 key spec.
FnKeyPairs ==
    {Generate([Algorithm |-> AlgorithmEC, Params |-> [curve |-> "P-256", keySize |-> ""],
               AllowLegacyKeySize |-> FALSE], m, id, "ok", 1).kp : m \in Materials, id \in KeyIDs}

\* A KeyPair with the public key and key ID of k and another private key.
Twin(k) ==
    LET other == CHOOSE m \in Materials : m # k.PrivateKey
    IN  [k EXCEPT !.PrivateKey = other, !.rawPrivateBytes = other]

FnAlgorithms == {AlgorithmEC, AlgorithmRSA, "DSA", ""}
FnCurves == {"", "P-256", "P-384", "P-521", "P-224"}
FnKeySizes == {"", "1024", "2048", "3072", "4096", "+4096", "8192", "abc"}
Encodings == {"PEM", "DER", "JWK"}

FnKeySpecs ==
    [Algorithm : FnAlgorithms, Params : [curve : FnCurves, keySize : FnKeySizes],
     AllowLegacyKeySize : BOOLEAN]

FnInputs ==
    {[NoFnIn EXCEPT !.fn = "keyspec", !.ks = ks, !.enc = e] : ks \in FnKeySpecs, e \in Encodings}
    \cup {[NoFnIn EXCEPT !.fn = "policy", !.interval = i, !.grace = g] : i \in Durations, g \in Durations}
    \cup {[NoFnIn EXCEPT !.fn = "filesystem", !.kp = k,
                         !.target = [NoTarget EXCEPT !.Type = "filesystem", !.path = pa]] :
            k \in FnKeyPairs, pa \in FnPaths}
    \cup {[NoFnIn EXCEPT !.fn = "http", !.kp = k,
                         !.target = [NoTarget EXCEPT !.Type = "http", !.endpoint = e, !.TLS = tls]] :
            k \in FnKeyPairs, e \in FnEndpoints, tls \in FnTLS}
    \cup {[NoFnIn EXCEPT !.fn = "render", !.kp = k, !.format = f, !.password = pw] :
            k \in FnKeyPairs \cup {NilKeyPair}, f \in FnFormats, pw \in Passwords}

FnInit ==
    /\ fnIn \in FnInputs
    /\ fnOut = NoFnOut
    /\ fnPc = "start"
    /\ spec = [Interval |-> 0, Publish |-> <<>>, KeySpec |-> fnIn.ks, Format |-> FormatSplitPEM,
               TriggerOnStartup |-> FALSE]
    /\ status = EmptyStatus
    /\ secret = NoSecret
    /\ published = {}
    /\ now = 1
    /\ pc = "idle"
    /\ profile = EmptyStatus
    /\ fetched = EmptyStatus
    /\ needsRotation = FALSE
    /\ decidedAt = ZeroTime
    /\ kp = NilKeyPair
    /\ heap = {}
    /\ fingerprint = <<>>
    /\ pubIdx = 1
    /\ errs = <<>>
    /\ outcome = <<>>
    /\ pubCalls = <<>>
    /\ pubErr = <<>>
    /\ writeCalls = 0
    /\ steps = <<>>
    /\ res = NilResult
    /\ ekErr = ""
    /\ updates = 0
    /\ requeueAt = ZeroTime
    /\ result = NoResult
    /\ runs = 0
    /\ unpersisted = {}
    /\ ctx = Background
    /\ procs = NoProcs
    /\ fsys = NoFiles

\* What a direct call leaves alone: everything the controller owns.
FnFrame ==
    UNCHANGED <<spec, status, secret, published, now, pc, profile, fetched, needsRotation,
                decidedAt, kp, heap, fingerprint, pubIdx, errs, outcome, pubCalls, pubErr,
                writeCalls, steps, res, ekErr, updates, requeueAt, result, runs, unpersisted,
                fnIn, ctx, concVars>>

Fn_ValidateKeySpec ==
    /\ fnPc = "start" /\ fnIn.fn = "keyspec"
    /\ fnOut' = [fnOut EXCEPT !.validate = ValidateKeySpec(fnIn.ks.Algorithm, fnIn.ks.Params,
                                                          fnIn.ks.AllowLegacyKeySize)]
    /\ fnPc' = "validated"
    /\ FnFrame

Fn_Admit ==
    /\ fnPc = "validated"
    /\ fnOut' = [fnOut EXCEPT !.admit = AdmitKeySpec(fnIn.ks)]
    /\ fnPc' = "admitted"
    /\ FnFrame

Fn_Generate ==
    /\ fnPc = "admitted"
    /\ \E m \in Materials, id \in KeyIDs, o \in GenOutcomes(fnIn.ks.Algorithm) :
         LET g == Generate(GenerateOptions(fnIn.ks), m, id, o, now) IN
         fnOut' = [fnOut EXCEPT !.gen = g, !.kp = g.kp, !.heap = g.alloc]
    /\ fnPc' = "generated"
    /\ FnFrame

\* ComputeFingerprint called twice on the public key of the generated KeyPair, whose
\* stored form follows the encoding of the key spec.
Fn_Fingerprint ==
    /\ fnPc = "generated" /\ ~fnOut.kp.nil
    /\ \E marshalOK \in BOOLEAN :
         fnOut' = [fnOut EXCEPT !.fp = <<ComputeFingerprint(fnOut.kp.PublicKey, marshalOK),
                                         ComputeFingerprint(fnOut.kp.PublicKey, marshalOK)>>,
                                !.stored = EncodePublicAs(fnIn.enc, fnOut.kp.PublicKey)]
    /\ fnPc' = "fingerprinted"
    /\ FnFrame

\* kp.Wipe(): on the nil KeyPair of a failed Generate, on the generated KeyPair, and
\* once more on the wiped KeyPair.
Fn_Wipe ==
    /\ \/ fnPc = "generated" /\ fnOut.kp.nil
       \/ fnPc \in {"fingerprinted", "wiped"}
    /\ LET w == Wipe(fnOut.kp, fnOut.heap) IN
       fnOut' = [fnOut EXCEPT !.kp = w.kp, !.heap = w.heap, !.after = Append(fnOut.after, w)]
    /\ fnPc' = IF fnPc = "wiped" THEN "wiped twice" ELSE "wiped"
    /\ FnFrame

\* A filesystem target and an HTTP target the publishers accept.
ConcTarget ==
    [Type |-> "filesystem", path |-> [abs |-> TRUE, segs |-> <<"keys">>], endpoint |-> <<>>,
     TLS |-> NilTLS]
HTTPSTarget == [NoTarget EXCEPT !.Type = "http", !.endpoint = <<"https://", "vault">>]

\* The wiped KeyPair handed on to one of its users: ComputeFingerprint on its public
\* key, Render, Publish of the filesystem publisher, Publish of the HTTP publisher.
Fn_UseAfterWipe ==
    /\ fnPc \in {"wiped", "wiped twice"} /\ ~fnOut.kp.nil
    /\ \/ \E marshalOK \in BOOLEAN :
            fnOut' = [fnOut EXCEPT !.used.call = "ComputeFingerprint",
                        !.used.fp = ComputeFingerprint(fnOut.kp.PublicKey, marshalOK)]
       \/ \E f \in FnFormats, pw \in Passwords :
            fnOut' = [fnOut EXCEPT !.used.call = "Render",
                        !.used.render = Render(fnOut.kp, f, pw)]
       \/ \E env \in FsEnvs :
            fnOut' = [fnOut EXCEPT !.used.call = "FilesystemPublisher.Publish",
                        !.used.pub = FilesystemPublish(ConcTarget, fnOut.kp, env)]
       \/ \E resp \in Responses :
            fnOut' = [fnOut EXCEPT !.used.call = "HTTPPublisher.Publish",
                        !.used.pub = HTTPPublish(HTTPSTarget, fnOut.kp, resp)]
    /\ fnPc' = "used"
    /\ FnFrame

Fn_ValidateRotationPolicy ==
    /\ fnPc = "start" /\ fnIn.fn = "policy"
    /\ fnOut' = [fnOut EXCEPT !.policy = ValidateRotationPolicy(fnIn.interval, fnIn.grace)]
    /\ fnPc' = "checked"
    /\ FnFrame

\* One publisher called on a KeyPair, and on its twin with the same environment.
Fn_FilesystemPublish ==
    /\ fnPc = "start" /\ fnIn.fn = "filesystem"
    /\ \E env \in FsEnvs :
         fnOut' = [fnOut EXCEPT !.pub = FilesystemPublish(fnIn.target, fnIn.kp, env),
                                !.twin = FilesystemPublish(fnIn.target, Twin(fnIn.kp), env)]
    /\ fnPc' = "done"
    /\ FnFrame

Fn_HTTPPublish ==
    /\ fnPc = "start" /\ fnIn.fn = "http"
    /\ \E resp \in Responses :
         fnOut' = [fnOut EXCEPT !.pub = HTTPPublish(fnIn.target, fnIn.kp, resp),
                                !.twin = HTTPPublish(fnIn.target, Twin(fnIn.kp), resp),
                                !.response = resp]
    /\ fnPc' = "done"
    /\ FnFrame

Fn_Render ==
    /\ fnPc = "start" /\ fnIn.fn = "render"
    /\ fnOut' = [fnOut EXCEPT !.render = Render(fnIn.kp, fnIn.format, fnIn.password)]
    /\ fnPc' = "done"
    /\ FnFrame

FnNext ==
    \/ Fn_FilesystemPublish
    \/ Fn_HTTPPublish
    \/ Fn_Render
    \/ Fn_ValidateKeySpec
    \/ Fn_Admit
    \/ Fn_Generate
    \/ Fn_Fingerprint
    \/ Fn_Wipe
    \/ Fn_UseAfterWipe
    \/ Fn_ValidateRotationPolicy

FnSpec == FnInit /\ [][FnNext]_vars

\* ------------------------------------------- EnsureKey for two profiles at once
\* EnsureKey holds no lock and keeps no state of its own: it may run for different
\* KeyProfiles at once (a second replica of the controller, or a controller set up
\* with more than one worker). The two invocations below belong to two new profiles
\* that publish to the same directory.
Profiles == {"p1", "p2"}

ConcKeySpec ==
    [Algorithm |-> AlgorithmEC, Params |-> [curve |-> "P-256", keySize |-> ""],
     AllowLegacyKeySize |-> FALSE]

\* What the file system calls of one Publish did so far (FsEnvs), all succeeding.
AllOk == [mkdir |-> TRUE, write |-> TRUE, rename |-> TRUE]

\* The operations FilesystemPublish issues for KeyPair k when every call succeeds:
\* MkdirAll, WriteFile of the temp file, Rename to the final name.
Plan(k) == FilesystemPublish(ConcTarget, k, AllOk).ops
TmpFile(k) == Plan(k)[2].file
PubPEM(k) == Plan(k)[2].data
FinalFile(k) == Plan(k)[3].to

\* The names the directory may hold, and the files (inodes) behind them: one that an
\* earlier publish left, and one per invocation, created by its os.WriteFile.
FileNames ==
    UNION {{TmpFile(k), FinalFile(k)} : k \in FnKeyPairs}
Inodes == Profiles \cup {"old"}
NoInode == "none"

\* File contents: an empty (created or truncated) file, a PEM block cut short, or all of it.
Empty == <<>>
CutShort(pem) == <<pem[1]>>
Complete(content) == Len(content) = 2 /\ content[1] = "PUBLIC KEY"

\* A directory without files, and one holding the public key an earlier rotation
\* published under its key ID.
EmptyDir ==
    [names |-> [f \in FileNames |-> NoInode], inodes |-> [i \in Inodes |-> Empty]]
UsedDir ==
    [names |-> [f \in FileNames |-> IF f = FinalFile(CHOOSE k \in FnKeyPairs : k.KeyID = "k1")
                                    THEN "old" ELSE NoInode],
     inodes |-> [i \in Inodes |-> IF i = "old" THEN <<"PUBLIC KEY", 1>> ELSE Empty]]

\* The locals of one EnsureKey invocation: made keeps the KeyPair as Generate
\* returned it, fd is the file os.WriteFile has open, env the file system calls
\* that failed on their own, stored the key in the profile's Secret.
NewProc ==
    [pc |-> "decide", kp |-> NilKeyPair, made |-> NilKeyPair, fingerprint |-> <<>>,
     fd |-> NoInode, env |-> AllOk, pubErr |-> "", ekErr |-> "", stored |-> <<>>,
     rotated |-> FALSE]

ConcInit ==
    /\ procs = [p \in Profiles |-> NewProc]
    /\ fsys \in {EmptyDir, UsedDir}
    /\ ctx = Background
    /\ fnIn = NoFnIn
    /\ fnOut = NoFnOut
    /\ fnPc = "off"
    /\ spec = [Interval |-> 0, Publish |-> <<ConcTarget>>, KeySpec |-> ConcKeySpec,
               Format |-> FormatSplitPEM, TriggerOnStartup |-> FALSE]
    /\ status = EmptyStatus
    /\ secret = NoSecret
    /\ published = {}
    /\ now = 1
    /\ pc = "idle"
    /\ profile = EmptyStatus
    /\ fetched = EmptyStatus
    /\ needsRotation = FALSE
    /\ decidedAt = ZeroTime
    /\ kp = NilKeyPair
    /\ heap = {}
    /\ fingerprint = <<>>
    /\ pubIdx = 1
    /\ errs = <<>>
    /\ outcome = <<>>
    /\ pubCalls = <<>>
    /\ pubErr = <<>>
    /\ writeCalls = 0
    /\ steps = <<>>
    /\ res = NilResult
    /\ ekErr = ""
    /\ updates = 0
    /\ requeueAt = ZeroTime
    /\ result = NoResult
    /\ runs = 0
    /\ unpersisted = {}

\* What the concurrent invocations leave alone: the single-profile controller.
ConcFrame ==
    UNCHANGED <<spec, status, secret, published, now, pc, profile, fetched, needsRotation,
                decidedAt, kp, heap, fingerprint, pubIdx, errs, outcome, pubCalls, pubErr,
                writeCalls, steps, res, ekErr, updates, requeueAt, result, runs, unpersisted,
                fnVars, ctx>>

\* Invocation p moves to the locals r.
Becomes(p, r) == procs' = [procs EXCEPT ![p] = r]

\* EnsureKey, step 1: a new profile has no key, checkRotationNeeded asks for one.
Conc_Decide(p) ==
    /\ procs[p].pc = "decide"
    /\ Becomes(p, [procs[p] EXCEPT
         !.pc = IF checkRotationNeeded(EmptyStatus, spec.Interval, now).rotate
                THEN "generate" ELSE "done"])
    /\ UNCHANGED fsys
    /\ ConcFrame

\* EnsureKey, step 2: keygen.Generate; generateKeyID draws the key ID at random.
Conc_Generate(p) ==
    /\ procs[p].pc = "generate"
    /\ \E m \in Materials, id \in KeyIDs, o \in GenOutcomes(spec.KeySpec.Algorithm) :
         LET g == Generate(GenerateOptions(spec.KeySpec), m, id, o, now) IN
         IF g.err # ""
         THEN Becomes(p, [procs[p] EXCEPT !.ekErr = "keygen", !.pc = "done"])
         ELSE Becomes(p, [procs[p] EXCEPT !.kp = g.kp, !.made = g.kp, !.pc = "fingerprint"])
    /\ UNCHANGED fsys
    /\ ConcFrame

\* EnsureKey, step 2b: ComputeFingerprint
Conc_Fingerprint(p) ==
    /\ procs[p].pc = "fingerprint"
    /\ \E marshalOK \in BOOLEAN :
         LET f == ComputeFingerprint(procs[p].kp.PublicKey, marshalOK) IN
         IF f.err # ""
         THEN Becomes(p, [procs[p] EXCEPT !.ekErr = "fingerprint", !.pc = "wipe"])
         ELSE Becomes(p, [procs[p] EXCEPT !.fingerprint = f.fp, !.pc = "mkdir"])
    /\ UNCHANGED fsys
    /\ ConcFrame

\* FilesystemPublisher.Publish: the path checks and os.MkdirAll
Conc_MkdirAll(p) ==
    /\ procs[p].pc = "mkdir"
    /\ \E ok \in BOOLEAN :
         LET env == [procs[p].env EXCEPT !.mkdir = ok]
             pub == FilesystemPublish(ConcTarget, procs[p].kp, env)
         IN  IF ok
             THEN Becomes(p, [procs[p] EXCEPT !.pc = "open"])
             ELSE Becomes(p, [procs[p] EXCEPT !.env = env, !.pubErr = pub.err,
                                              !.pc = "published"])
    /\ UNCHANGED fsys
    /\ ConcFrame

\* os.WriteFile, first half: the temp file is opened with O_CREATE|O_TRUNC, which
\* creates it or empties the file that has the name.
Conc_Open(p) ==
    /\ procs[p].pc = "open"
    /\ LET tmp == TmpFile(procs[p].kp) IN
       \E ok \in BOOLEAN :
         IF ~ok
         THEN /\ Becomes(p, [procs[p] EXCEPT
                    !.env = [procs[p].env EXCEPT !.write = FALSE],
                    !.pubErr = FilesystemPublish(ConcTarget, procs[p].kp,
                                                 [procs[p].env EXCEPT !.write = FALSE]).err,
                    !.pc = "published"])
              /\ UNCHANGED fsys
         ELSE LET file == IF fsys.names[tmp] = NoInode THEN p ELSE fsys.names[tmp] IN
              /\ fsys' = [names |-> [fsys.names EXCEPT ![tmp] = file],
                          inodes |-> [fsys.inodes EXCEPT ![file] = Empty]]
              /\ Becomes(p, [procs[p] EXCEPT !.fd = file, !.pc = "write"])
    /\ ConcFrame

\* os.WriteFile, second half: the PEM is written to the open file, which is closed;
\* a failing write leaves what it had written.
Conc_Write(p) ==
    /\ procs[p].pc = "write"
    /\ LET file == procs[p].fd
           pem  == PubPEM(procs[p].kp)
       IN  \E ok \in BOOLEAN :
             IF ok
             THEN /\ fsys' = [fsys EXCEPT !.inodes[file] = pem]
                  /\ Becomes(p, [procs[p] EXCEPT !.fd = NoInode, !.pc = "rename"])
             ELSE /\ fsys' = [fsys EXCEPT !.inodes[file] = CutShort(pem)]
                  /\ Becomes(p, [procs[p] EXCEPT
                        !.fd = NoInode,
                        !.env = [procs[p].env EXCEPT !.write = FALSE],
                        !.pubErr = FilesystemPublish(ConcTarget, procs[p].kp,
                                                     [procs[p].env EXCEPT !.write = FALSE]).err,
                        !.pc = "published"])
    /\ ConcFrame

\* os.Rename of the temp file to {keyID}.pub: it fails on its own, or because the
\* temp name is gone.
Conc_Rename(p) ==
    /\ procs[p].pc = "rename"
    /\ LET tmp   == TmpFile(procs[p].kp)
           final == FinalFile(procs[p].kp)
       IN  \E ok \in BOOLEAN :
             IF ok /\ fsys.names[tmp] # NoInode
             THEN /\ fsys' = [fsys EXCEPT !.names = [fsys.names EXCEPT ![final] = fsys.names[tmp],
                                                                       ![tmp] = NoInode]]
                  /\ Becomes(p, [procs[p] EXCEPT !.pubErr = "", !.pc = "published"])
             ELSE /\ UNCHANGED fsys
                  /\ Becomes(p, [procs[p] EXCEPT
                        !.env = [procs[p].env EXCEPT !.rename = ok],
                        !.pubErr = FilesystemPublish(ConcTarget, procs[p].kp,
                                                     [procs[p].env EXCEPT !.rename = FALSE]).err,
                        !.pc = "remove"])
    /\ ConcFrame

\* The os.Remove of the temp file after a failed rename; its error is dropped.
Conc_Remove(p) ==
    /\ procs[p].pc = "remove"
    /\ LET tmp == TmpFile(procs[p].kp) IN
       \E ok \in BOOLEAN :
         fsys' = IF ok THEN [fsys EXCEPT !.names[tmp] = NoInode] ELSE fsys
    /\ Becomes(p, [procs[p] EXCEPT !.pc = "published"])
    /\ ConcFrame

\* EnsureKey, step 3: the check of PublishAll's error.
Conc_CheckPublish(p) ==
    /\ procs[p].pc = "published"
    /\ IF procs[p].pubErr # ""
       THEN Becomes(p, [procs[p] EXCEPT !.ekErr = "publish", !.pc = "wipe"])
       ELSE Becomes(p, [procs[p] EXCEPT !.pc = "persist"])
    /\ UNCHANGED fsys
    /\ ConcFrame

\* EnsureKey, step 4: SecretWriter.Write to the Secret of the profile.
Conc_Persist(p) ==
    /\ procs[p].pc = "persist"
    /\ LET r == Render(procs[p].kp, spec.Format, "") IN
       \E applied \in APICall(ctx) :
         IF r.err = "" /\ applied
         THEN Becomes(p, [procs[p] EXCEPT
                 !.stored = <<procs[p].kp.KeyID, procs[p].kp.PublicKey>>,
                 !.rotated = TRUE, !.pc = "wipe"])
         ELSE Becomes(p, [procs[p] EXCEPT !.ekErr = "persist", !.pc = "wipe"])
    /\ UNCHANGED fsys
    /\ ConcFrame

\* EnsureKey: the deferred kp.Wipe(), and the return.
Conc_Wipe(p) ==
    /\ procs[p].pc = "wipe"
    /\ Becomes(p, [procs[p] EXCEPT !.kp = Wipe(procs[p].kp, {}).kp, !.pc = "done"])
    /\ UNCHANGED fsys
    /\ ConcFrame

ConcNext ==
    \/ \E p \in Profiles : Conc_Decide(p)
    \/ \E p \in Profiles : Conc_Generate(p)
    \/ \E p \in Profiles : Conc_Fingerprint(p)
    \/ \E p \in Profiles : Conc_MkdirAll(p)
    \/ \E p \in Profiles : Conc_Open(p)
    \/ \E p \in Profiles : Conc_Write(p)
    \/ \E p \in Profiles : Conc_Rename(p)
    \/ \E p \in Profiles : Conc_Remove(p)
    \/ \E p \in Profiles : Conc_CheckPublish(p)
    \/ \E p \in Profiles : Conc_Persist(p)
    \/ \E p \in Profiles : Conc_Wipe(p)

ConcSpec == ConcInit /\ [][ConcNext]_vars

\* ------------------------------------------------- Reconcile retried for ever
\* The controller keeps one profile reconciled for as long as it runs: a Reconcile
\* that returns an error is queued again by the work queue, one that returns
\* RequeueAfter is queued again by the timer, and a change of the profile queues
\* one at any time.  The profile has a key, an interval of 2, one filesystem target.
LiveInit ==
    /\ InitOf({FALSE})
    /\ spec.Interval = 2
    /\ spec.Publish = <<[Type |-> "filesystem"]>>
    /\ spec.KeySpec.Algorithm = AlgorithmEC
    /\ status.CurrentKeyID = "k1"
    /\ status.LastRotation = 1

\* The locals of a fresh Reconcile call, any number of calls.
LiveLocals ==
    /\ needsRotation' = FALSE
    /\ decidedAt' = ZeroTime
    /\ kp' = NilKeyPair
    /\ heap' = {}
    /\ fingerprint' = <<>>
    /\ pubIdx' = 1
    /\ errs' = <<>>
    /\ outcome' = <<>>
    /\ pubCalls' = <<>>
    /\ pubErr' = <<>>
    /\ writeCalls' = 0
    /\ steps' = <<>>
    /\ res' = NilResult
    /\ ekErr' = ""
    /\ updates' = 0
    /\ requeueAt' = ZeroTime
    /\ runs' = runs

\* Reconcile, step 1: r.Get succeeds.
LiveGet ==
    /\ pc = "idle"
    /\ LiveLocals
    /\ pc' = "decide"
    /\ profile' = status
    /\ fetched' = status
    /\ result' = NoResult
    /\ ctx' = Background
    /\ UNCHANGED <<spec, status, secret, published, now, unpersisted, fnVars, concVars>>

\* Reconcile, step 1: r.Get fails.
LiveGetErr ==
    /\ pc = "idle"
    /\ LiveLocals
    /\ profile' = EmptyStatus
    /\ fetched' = status
    /\ result' = [returned |-> TRUE, RequeueAfter |-> 0, err |-> "get"]
    /\ ctx' = Background
    /\ UNCHANGED <<spec, status, secret, published, now, pc, unpersisted, fnVars, concVars>>

\* The steps of the controller; the clock is not one of them.
LiveStep ==
    \/ LiveGet
    \/ LiveGetErr
    \/ EK_Decide
    \/ EK_Generate
    \/ EK_Fingerprint
    \/ PublishTarget
    \/ PublishAllReturn
    \/ EK_CheckPublish
    \/ EK_Persist
    \/ EK_Wipe
    \/ ReconcileEnsureErr
    \/ ReconcileStatus
    \/ ReconcileRequeue

LiveNext == Tick \/ LiveStep

\* The controller keeps taking steps, and no call fails for ever: r.Get, key
\* generation, the fingerprint, the publisher, the Secret write and the status
\* update each succeed again and again when they are tried again and again.
LiveFairness ==
    /\ WF_vars(LiveStep)
    /\ SF_vars(LiveGet)
    /\ SF_vars(EK_Generate /\ pc' = "fingerprint")
    /\ SF_vars(EK_Fingerprint /\ pc' = "publish")
    /\ SF_vars(PublishTarget /\ errs' = errs)
    /\ SF_vars(EK_Persist /\ ekErr' = "")
    /\ SF_vars(ReconcileStatus /\ pc' = "requeue")

LiveSpec == LiveInit /\ [][LiveNext]_vars /\ LiveFairness

\* ---------------------------------------------------------------------- claims
Range(f) == {f[i] : i \in DOMAIN f}

\* EnsureKey has been entered by the current Reconcile and has made its decision.
Decided == steps # <<>>

\* PublishAll has returned in the current EnsureKey invocation.
PublishReturned == "publish" \in Range(steps)

\* EnsureKey has returned to Reconcile.
EnsureKeyReturned == Decided /\ pc \in {"ensure_err", "status", "requeue", "idle"}

\* The profile as fetched has a current key and a recorded last rotation.
HasKey == fetched.CurrentKeyID # "" /\ ~IsZero(fetched.LastRotation)

\* C1: the secret writer is called only after PublishAll returned nil for this key,
\* i.e. after every target was attempted and succeeded; when any target fails,
\* Write is never called in the invocation, no rotation is reported and EnsureKey
\* returns the publish error.
C1_PublishBeforePersist ==
    /\ writeCalls > 0 =>
         /\ PublishReturned /\ pubErr = <<>>
         /\ Len(outcome) = Len(spec.Publish)
         /\ \A i \in DOMAIN outcome : outcome[i] = "ok" /\ <<i, kp.KeyID>> \in published
    /\ (\E i \in DOMAIN outcome : outcome[i] # "ok") =>
         /\ writeCalls = 0
         /\ ~res.Rotated
         /\ EnsureKeyReturned => ekErr = "publish"

C1_Witness ==
    /\ pc = "idle" /\ writeCalls = 1 /\ Len(spec.Publish) = 2
    /\ secret.keyID = res.KeyID /\ res.Rotated

\* C2: whenever EnsureKey has returned, every piece of private key material that
\* was created during the invocation has been zeroed by Wipe.
C2_WipeOnEveryPath == EnsureKeyReturned => heap = {}

\* The canonical order of the steps of a rotating EnsureKey invocation.
Order == <<"decide", "generate", "fingerprint", "publish", "persist", "wipe">>

\* C3: the steps of an EnsureKey invocation are taken one after the other in the
\* order decide, generate, fingerprint, publish, persist, wipe (an invocation that
\* fails may skip from any step to wipe); a rotation that succeeds has taken all
\* six, so the fingerprint precedes Wipe and Wipe follows persist; publishers run
\* only between fingerprint and persist.
C3_StrictOrder ==
    /\ \A i \in DOMAIN steps :
         \/ steps[i] = Order[i]
         \/ i = Len(steps) /\ steps[i] = "wipe" /\ i > 2
    /\ (EnsureKeyReturned /\ res.Rotated) => steps = Order
    /\ outcome # <<>> => Len(steps) >= 3 /\ steps[3] = "fingerprint"
    /\ (Len(steps) = 3 /\ pc = "publish") => ~kp.nil /\ kp.PublicKey # 0 /\ fingerprint[2] = kp.PublicKey

C3_Witness == pc = "idle" /\ res.Rotated /\ steps = Order /\ kp.PublicKey = 0

\* C4: with no current key ID or no recorded last rotation, checkRotationNeeded
\* answers rotate, whatever the interval.
C4_NoPriorKeyRotates ==
    (Decided /\ (fetched.CurrentKeyID = "" \/ IsZero(fetched.LastRotation))) => needsRotation

C4_Witness ==
    /\ Decided /\ needsRotation /\ spec.Interval = 0
    /\ fetched.CurrentKeyID # "" /\ fetched.LastRotation = NilTime

\* C5 as stated: with interval = 0 checkRotationNeeded never answers rotate, and
\* the next rotation is the zero time.
C5_Original ==
    /\ (Decided /\ spec.Interval = 0) => ~needsRotation
    /\ (~res.nil /\ spec.Interval = 0) => res.NextRotation = ZeroTime

\* C5, amended: with interval = 0 checkRotationNeeded never answers rotate for a
\* profile that has a current key ID and a recorded last rotation, and every
\* result EnsureKey returns carries the zero time as next rotation.
C5_IntervalZero ==
    /\ (Decided /\ spec.Interval = 0 /\ HasKey) => ~needsRotation
    /\ (~res.nil /\ spec.Interval = 0) => res.NextRotation = ZeroTime

C5_Witness ==
    /\ pc = "idle" /\ spec.Interval = 0 /\ HasKey /\ Decided /\ ~needsRotation
    /\ ~res.nil /\ res.NextRotation = ZeroTime /\ decidedAt > fetched.LastRotation

\* C6: with a current key, a last rotation and interval > 0, checkRotationNeeded
\* answers rotate exactly when the time it reads is strictly later than
\* lastRotation + interval.
C6_RotateIffOverdue ==
    (Decided /\ HasKey /\ spec.Interval > 0) =>
        (needsRotation <=> decidedAt > fetched.LastRotation + spec.Interval)

C6_Witness ==
    /\ Decided /\ HasKey /\ spec.Interval > 0
    /\ decidedAt = fetched.LastRotation + spec.Interval /\ ~needsRotation

\* Reconcile has returned from its requeue step.
Requeued == pc = "idle" /\ result.returned /\ requeueAt # ZeroTime

\* C7: Reconcile never returns a negative RequeueAfter, and when the next rotation
\* lies in the past at the moment the requeue is computed, it asks for the
\* reconcile to be repeated after the one-second retry delay.
C7_OverdueRequeue ==
    /\ result.RequeueAfter >= 0
    /\ (Requeued /\ res.NextRotation # ZeroTime /\ res.NextRotation < requeueAt) =>
         result.RequeueAfter = RetryDelay /\ result.err = ""

C7_Witness ==
    Requeued /\ res.NextRotation # ZeroTime /\ res.NextRotation < requeueAt /\ res.Rotated

\* The indices of the targets whose type has a registered publisher, ascending.
RECURSIVE KnownUpTo(_, _)
KnownUpTo(targets, n) ==
    IF n = 0 THEN <<>>
    ELSE IF targets[n].Type \in publishers
         THEN Append(KnownUpTo(targets, n - 1), n)
         ELSE KnownUpTo(targets, n - 1)

\* C8: PublishAll visits the targets one by one in list order; when it returns it
\* has visited every target exactly once and invoked the publisher of every target
\* of a known type exactly once, whatever happened at earlier targets.
C8_AllTargetsAttempted ==
    /\ pubIdx = Len(outcome) + 1
    /\ Len(outcome) <= Len(spec.Publish)
    /\ \A i \in DOMAIN outcome : outcome[i] = "unknown" <=> spec.Publish[i].Type \notin publishers
    /\ pubCalls = KnownUpTo(spec.Publish, Len(outcome))
    /\ PublishReturned => Len(outcome) = Len(spec.Publish)

C8_Witness ==
    /\ PublishReturned /\ Len(outcome) = 2
    /\ outcome[1] = "failed" /\ outcome[2] = "ok" /\ pubCalls = <<1, 2>>

\* C9: PublishAll returns nil exactly when no target failed; otherwise its error
\* lists the failing targets and no others, each with its (0-based) index and its
\* type, in ascending index order.
C9_AggregateError ==
    PublishReturned =>
      /\ pubErr = <<>> <=> \A i \in DOMAIN outcome : outcome[i] = "ok"
      /\ pubErr # <<>> =>
           LET list == pubErr[2] IN
           /\ {e.index : e \in Range(list)} = {i - 1 : i \in {j \in DOMAIN outcome : outcome[j] # "ok"}}
           /\ \A a, b \in DOMAIN list : a < b => list[a].index < list[b].index
           /\ \A a \in DOMAIN list : list[a].type = spec.Publish[list[a].index + 1].Type

C9_Witness ==
    /\ PublishReturned /\ outcome = <<"failed", "ok">>
    /\ pubErr = <<"publish errors", <<[index |-> 0, type |-> "filesystem", kind |-> "failed"]>>>>

\* C10: while EnsureKey runs, and after it returned an error, the profile held by
\* Reconcile and the stored status are those r.Get returned; a Reconcile whose
\* EnsureKey failed makes no status update.
C10_NoMutation ==
    /\ pc \in {"decide", "generate", "fingerprint", "publish", "published", "persist",
               "wipe", "ensure_err", "status"} => profile = fetched /\ status = fetched
    /\ ekErr # "" => profile = fetched /\ status = fetched /\ updates = 0

C10_Witness ==
    pc = "idle" /\ ekErr = "persist" /\ status = fetched /\ fetched.CurrentKeyID # "" /\ secret.keyID = fetched.CurrentKeyID

\* C11: a key that was delivered to every publish target and whose Secret write
\* failed is made privately available by the retry: once a later Reconcile has
\* completed a rotation and returned without error, no key is left that is publicly
\* known but not persisted.
C11_PublishedKeyPersisted ==
    (pc = "idle" /\ result.returned /\ result.err = "" /\ res.Rotated) => unpersisted = {}

\* C13: when Generate fails inside EnsureKey, EnsureKey returns the error with no
\* KeyPair and no result, no publisher and no secret writer has been invoked in the
\* invocation, and Reconcile returns that error.
C13_GenerateFailureStops ==
    ekErr = "keygen" =>
      /\ kp.nil /\ res.nil
      /\ pubCalls = <<>> /\ outcome = <<>> /\ ~PublishReturned
      /\ writeCalls = 0
      /\ steps = <<"decide", "generate">>
      /\ pc \in {"ensure_err", "idle"}
      /\ pc = "idle" => result = [returned |-> TRUE, RequeueAfter |-> 0, err |-> "keygen"]

C13_Witness ==
    /\ pc = "idle" /\ ekErr = "keygen" /\ spec.KeySpec.Algorithm = AlgorithmEC
    /\ Len(spec.Publish) = 2 /\ published = {} /\ ~secret.exists /\ result.err = "keygen"

\* ------------------------------------------------ claims on the direct calls
\* The key size a keySize string stands for (0: none).
StatedSize(str) ==
    CASE str = "1024" -> 1024
      [] str = "2048" -> 2048
      [] str = "3072" -> 3072
      [] str \in {"4096", "+4096"} -> 4096
      [] str = "8192" -> 8192
      [] OTHER -> 0

\* The rule set for key specs as the specification states it.
AcceptableKeySpec(ks) ==
    \/ ks.Algorithm = "EC" /\ ks.Params.curve \in {"P-256", "P-384", "P-521"}
    \/ /\ ks.Algorithm = "RSA"
       /\ StatedSize(ks.Params.keySize) \in {2048, 3072, 4096}
       /\ StatedSize(ks.Params.keySize) >= 3072 \/ ks.AllowLegacyKeySize

\* ValidateKeySpec, and Generate, have returned for the key spec fnIn.ks.
Validated == fnIn.fn = "keyspec" /\ fnPc # "start"
Generated == fnIn.fn = "keyspec" /\ fnPc \notin {"start", "validated", "admitted"}

\* C12: Generate called with a key spec that fails validation returns the validation
\* error and no KeyPair, has not read the random source and has created no key
\* material.
C12_InvalidSpecNoGeneration ==
    (Generated /\ ~AcceptableKeySpec(fnIn.ks)) =>
      /\ fnOut.gen.kp.nil
      /\ fnOut.gen.err = "key spec validation failed"
      /\ fnOut.gen.randReads = 0
      /\ fnOut.gen.alloc = {}

C12_Witness ==
    /\ Generated /\ fnIn.ks.Algorithm = "RSA" /\ fnIn.ks.Params.keySize = "2048"
    /\ ~fnIn.ks.AllowLegacyKeySize
    /\ fnOut.gen.kp.nil /\ fnOut.gen.err = "key spec validation failed" /\ fnOut.gen.randReads = 0

\* C14: the key-spec check of the admission webhook accepts a key spec exactly when
\* the validation step of Generate accepts it, and Generate rejects no admitted key
\* spec for its algorithm, curve or key size.
C14_AdmissionMatchesGeneration ==
    Generated =>
      /\ fnOut.admit.err = "" <=> fnOut.gen.err # "key spec validation failed"
      /\ fnOut.admit.err = "" =>
           fnOut.gen.err \notin {"unsupported algorithm", "unsupported curve", "invalid key size"}

C14_Witness ==
    /\ Generated /\ fnIn.ks.Algorithm = "RSA" /\ fnIn.ks.Params.keySize = "2048"
    /\ fnIn.ks.AllowLegacyKeySize
    /\ fnOut.admit.err = "" /\ fnOut.admit.warnings # <<>>
    /\ fnOut.gen.err = "" /\ ~fnOut.gen.kp.nil

\* C15: ValidateKeySpec returns no error exactly for EC with curve P-256, P-384 or
\* P-521 and for RSA with key size 2048, 3072 or 4096 where the size is at least
\* 3072 or the legacy opt-in is set; an accepted RSA 2048 carries a warning.
C15_AcceptedKeySpecs ==
    Validated =>
      /\ fnOut.validate.err = "" <=> AcceptableKeySpec(fnIn.ks)
      /\ (fnIn.ks.Algorithm = "RSA" /\ StatedSize(fnIn.ks.Params.keySize) = 2048
            /\ fnIn.ks.AllowLegacyKeySize) =>
           fnOut.validate.err = "" /\ Len(fnOut.validate.warnings) >= 1

C15_Witness ==
    /\ Validated /\ fnIn.ks.Algorithm = "RSA" /\ fnIn.ks.Params.keySize = "2048"
    /\ fnIn.ks.AllowLegacyKeySize /\ fnIn.ks.Params.curve = "P-224"
    /\ fnOut.validate = [warnings |-> <<"deprecated per BSI TR-02102-1">>, err |-> ""]

\* C16: for every RSA key size below 3072 ValidateKeySpec returns the deprecation
\* warning, whether or not it also returns an error.
C16_WarningWhateverTheError ==
    (Validated /\ fnIn.ks.Algorithm = "RSA" /\ StatedSize(fnIn.ks.Params.keySize) \in 1..3071) =>
        Len(fnOut.validate.warnings) >= 1

\* C17: ValidateRotationPolicy returns no error exactly when the grace period is at
\* least five minutes and the interval at least three times the grace period, for
\* every pair of durations.
C17_PolicyAcceptedIff ==
    fnPc = "checked" =>
      (fnOut.policy = "" <=> (fnIn.grace >= 5 /\ fnIn.interval >= 3 * fnIn.grace))

\* C18: Wipe never fails; on the absent KeyPair of a failed Generate it changes
\* nothing, and a second Wipe leaves the KeyPair and the memory as the first did.
C18_WipeIdempotent ==
    \A i \in DOMAIN fnOut.after :
      /\ ~fnOut.after[i].panic
      /\ fnOut.gen.kp.nil => fnOut.after[i].kp = fnOut.gen.kp /\ fnOut.after[i].heap = fnOut.gen.alloc
      /\ i > 1 => /\ fnOut.after[i].kp = fnOut.after[i - 1].kp
                  /\ fnOut.after[i].heap = fnOut.after[i - 1].heap

C18_Witness ==
    /\ fnPc = "wiped twice" /\ Len(fnOut.after) = 2
    /\ ~fnOut.gen.kp.nil /\ fnOut.gen.alloc # {} /\ fnOut.after[2] = fnOut.after[1]

\* C19: after Wipe has returned on a generated KeyPair, the raw private-key buffer,
\* the private scalar D and (RSA) the prime factors are zero, and the KeyPair's
\* private-key, public-key and buffer references are cleared.
C19_WipeZeroes ==
    (Len(fnOut.after) >= 1 /\ ~fnOut.gen.kp.nil) =>
      LET k == fnOut.gen.kp
          w == fnOut.after[1]
      IN  /\ RawBuf(k.rawPrivateBytes) \notin w.heap
          /\ Scalar(k.PrivateKey) \notin w.heap
          /\ Primes(k.PrivateKey) \notin w.heap
          /\ w.kp.rawPrivateBytes = 0 /\ w.kp.PrivateKey = 0 /\ w.kp.PublicKey = 0
          /\ ~w.kp.nil /\ w.kp.KeyID = k.KeyID

C19_Witness ==
    /\ fnPc = "wiped" /\ fnOut.gen.kp.Algorithm = "RSA"
    /\ Primes(fnOut.gen.kp.PrivateKey) \in fnOut.gen.alloc
    /\ fnOut.heap = {} /\ fnOut.kp.PrivateKey = 0

PublisherReturned == fnPc = "done" /\ fnIn.fn \in {"filesystem", "http"}
Rendered == fnPc = "done" /\ fnIn.fn = "render"

\* C21: what a publisher writes to its target (file names and contents, request
\* URL, body and headers) holds the PEM of the public key and the key ID, and is
\* the same for a KeyPair with another private key, the same public key and key ID.
C21_PublishersEmitPublicOnly ==
    PublisherReturned =>
      /\ fnOut.pub = fnOut.twin
      /\ \A i \in DOMAIN fnOut.pub.ops :
           LET o == fnOut.pub.ops[i] IN
           /\ o.op = "WriteFile" => o.data = <<"PUBLIC KEY", fnIn.kp.PublicKey>>
           /\ o.op = "POST" => o.body = <<"PUBLIC KEY", fnIn.kp.PublicKey>>

C21_Witness ==
    /\ PublisherReturned /\ fnIn.fn = "filesystem" /\ fnOut.pub.err = ""
    /\ Len(fnOut.pub.ops) = 3 /\ fnOut.pub.ops[2].data = <<"PUBLIC KEY", 2>>
    /\ fnIn.kp.PrivateKey = 2 /\ Twin(fnIn.kp).PrivateKey = 1 /\ fnOut.twin = fnOut.pub

\* C22: for a configured path that is not absolute or has a ".." segment the
\* filesystem publisher returns an error and has issued no file-system operation.
C22_TraversalRejected ==
    (PublisherReturned /\ fnIn.fn = "filesystem"
       /\ (~fnIn.target.path.abs \/ \E i \in DOMAIN fnIn.target.path.segs : fnIn.target.path.segs[i] = ".."))
    => fnOut.pub.err # "" /\ fnOut.pub.ops = <<>>

\* The endpoint's scheme is https (schemes are case-insensitive).
UsesHTTPS(endpoint) == endpoint # <<>> /\ endpoint[1] \in {"https://", "HTTPS://"}

\* C24: for an endpoint that does not use https and a target without the insecure
\* opt-in the HTTP publisher returns an error and sends no request; a response with
\* status >= 400 makes Publish return an error.
C24_HTTPSRequired ==
    (PublisherReturned /\ fnIn.fn = "http") =>
      /\ (~UsesHTTPS(fnIn.target.endpoint)
            /\ ~(~fnIn.target.TLS.nil /\ fnIn.target.TLS.InsecureSkipVerify))
         => fnOut.pub.err # "" /\ fnOut.pub.ops = <<>>
      /\ (fnOut.pub.ops # <<>> /\ ~fnOut.response.err /\ fnOut.response.status >= 400)
         => fnOut.pub.err = "server returned error"

C24_Witness ==
    /\ PublisherReturned /\ fnIn.target.endpoint = <<"http://", "vault">>
    /\ ~fnIn.target.TLS.nil /\ ~fnIn.target.TLS.InsecureSkipVerify
    /\ fnOut.pub = [err |-> "endpoint must use HTTPS", ops |-> <<>>]

\* C25: Render with format jks and an empty password returns an error and no
\* bundle, for every KeyPair.
C25_JKSNeedsPassword ==
    (Rendered /\ fnIn.format = "jks" /\ fnIn.password = "") =>
        fnOut.render.err # "" /\ fnOut.render.data = {}

C25_Witness ==
    /\ Rendered /\ fnIn.format = "jks" /\ fnIn.password = "" /\ ~fnIn.kp.nil
    /\ fnOut.render = [data |-> {}, err |-> "password is required for JKS format"]

\* C26: for every format the KeyProfile schema admits (split-pem, bundle-json,
\* jwks) Render, called by SecretWriter.Write on a generated KeyPair, returns a
\* bundle and no error.
C26_SchemaFormatsRender ==
    (Rendered /\ ~fnIn.kp.nil /\ fnIn.format \in {"split-pem", "bundle-json", "jwks"}) =>
        fnOut.render.err = "" /\ fnOut.render.data # {}

\* The context was cancelled while EnsureKey was generating, fingerprinting or
\* publishing the key.
CancelledInFlight == ctx.done /\ ctx.at \in {"generate", "fingerprint", "publish"}

\* The publisher calls a cancelled EnsureKey may still show: those made before the
\* cancellation and the one that was running.
AllowedCalls == Len(ctx.pubCalls) + (IF ctx.at = "publish" THEN 1 ELSE 0)

\* C27: when the context is cancelled during generation or publish, EnsureKey starts
\* no further publish target and does not return success.
C27_CancellationRespected ==
    CancelledInFlight =>
        /\ Len(pubCalls) <= AllowedCalls
        /\ (EnsureKeyReturned => ekErr # "")

\* C30: with rotation.triggerOnStartup set, the first Reconcile after the start of the
\* controller decides to rotate, whatever key the profile has and however recent it is.
C30_StartupTriggersRotation ==
    (spec.TriggerOnStartup /\ runs = 1 /\ Decided) => needsRotation

\* Invocation p has generated a KeyPair; it has returned from EnsureKey.
Made(p) == ~procs[p].made.nil
Returned(p) == procs[p].pc = "done"

\* What the directory shows under name f (NoInode when there is no such file).
Shown(f) == IF fsys.names[f] = NoInode THEN NoInode ELSE fsys.inodes[fsys.names[f]]
FinalNames == {FinalFile(k) : k \in FnKeyPairs}

\* C23: whatever the publishes into a directory are doing, a file {keyID}.pub is
\* absent or holds a complete PEM public key, and a Publish whose rename failed
\* leaves no temp file behind.
C23_AtomicPublish ==
    /\ \A f \in FinalNames : Shown(f) # NoInode => Complete(Shown(f))
    /\ \A p \in Profiles :
          (procs[p].pubErr = "failed to rename" /\ procs[p].pc \in {"published", "wipe", "done"})
              => Shown(TmpFile(procs[p].made)) = NoInode

\* C28: an EnsureKey invocation that has returned shows the publish result it would
\* have alone with the same outcomes of its file system calls, and the file of a key
\* it published holds that key.
C28_ProfilesIndependent ==
    \A p \in Profiles :
        (Returned(p) /\ Made(p)) =>
            /\ procs[p].pubErr = FilesystemPublish(ConcTarget, procs[p].made, procs[p].env).err
            /\ procs[p].ekErr \in {"", "persist"} =>
                   Shown(FinalFile(procs[p].made)) = PubPEM(procs[p].made)

\* C29: two KeyPairs that Generate returned with the same key ID are the same key.
C29_KeyIDNeverReused ==
    \A p, q \in Profiles :
        (Made(p) /\ Made(q) /\ procs[p].made.KeyID = procs[q].made.KeyID)
            => procs[p].made.PublicKey = procs[q].made.PublicKey

\* C32: an EnsureKey that decided not to rotate has called neither the generator nor
\* a publisher nor the secret writer, and its result is the current status: not
\* rotated, the key ID, fingerprint and last rotation of the profile, and as next
\* rotation lastRotation + interval, or the zero time when the interval is 0.
C32_NoRotationNoEffects ==
    (Decided /\ ~needsRotation) =>
        /\ steps = <<"decide">>
        /\ kp.nil /\ heap = {}
        /\ pubCalls = <<>> /\ outcome = <<>> /\ pubErr = <<>>
        /\ writeCalls = 0
        /\ ekErr = ""
        /\ ~res.nil /\ ~res.Rotated
        /\ res.KeyID = fetched.CurrentKeyID
        /\ res.Fingerprint = fetched.CurrentKeyFingerprint
        /\ res.RotationTime = fetched.LastRotation
        /\ res.NextRotation = IF spec.Interval = 0 THEN ZeroTime
                              ELSE fetched.LastRotation + spec.Interval

C32_Witness ==
    /\ pc = "idle" /\ Decided /\ ~needsRotation /\ result.err = ""
    /\ res.KeyID = "k1" /\ spec.Interval = 0 /\ res.NextRotation = ZeroTime
    /\ Len(spec.Publish) > 0

\* C34: whenever a Reconcile that ran EnsureKey has returned without error, the
\* current key ID of the status is the key ID of the profile's Secret.
C34_StatusMatchesSecret ==
    (pc = "idle" /\ Decided /\ result.returned /\ result.err = "") =>
        status.CurrentKeyID = secret.keyID

\* The Reconcile before the current one persisted key k1 and failed to record it: k1
\* went to the only target, its Secret write did not fail, and the status the
\* current Reconcile fetched still has no key.
C34_Witness ==
    /\ pc = "idle" /\ runs = 2 /\ Decided /\ result.returned /\ result.err = ""
    /\ Len(spec.Publish) = 1 /\ fetched.CurrentKeyID = "" /\ res.Rotated
    /\ <<1, "k1">> \in published /\ unpersisted = {}
    /\ status.CurrentKeyID = "k2" /\ secret.keyID = "k2"

\* C35: the status is changed only by a Reconcile whose EnsureKey succeeded, and a
\* key ID or fingerprint it newly records belongs to the key of that rotation: the
\* key was delivered to every publish target, the Secret holds it, and the
\* fingerprint is the one of the public key in the Secret.
C35_StatusNamesPersistedKey ==
    runs > 0 =>
      /\ status # fetched => (ekErr = "" /\ ~res.nil)
      /\ (\/ status.CurrentKeyID # fetched.CurrentKeyID
          \/ status.CurrentKeyFingerprint # fetched.CurrentKeyFingerprint) =>
             /\ res.Rotated /\ res.KeyID = status.CurrentKeyID
             /\ secret.exists /\ secret.keyID = status.CurrentKeyID
             /\ status.CurrentKeyFingerprint = res.Fingerprint
             /\ Len(status.CurrentKeyFingerprint) = 2
             /\ <<"public.pem", <<"PUBLIC KEY", status.CurrentKeyFingerprint[2]>>>> \in secret.data
             /\ \A i \in DOMAIN spec.Publish : <<i, status.CurrentKeyID>> \in published

C35_Witness ==
    /\ pc = "idle" /\ result.err = "" /\ res.Rotated /\ Len(spec.Publish) = 2
    /\ fetched.CurrentKeyID = "k1" /\ status.CurrentKeyID = "k2"
    /\ status.CurrentKeyFingerprint = <<FingerprintPrefix, 2>>

\* C36: with interval > 0, a Reconcile that returns from its requeue step without
\* error asks for a later reconcile: its RequeueAfter is positive.
C36_AlwaysRequeued ==
    (Requeued /\ spec.Interval > 0 /\ result.err = "") => result.RequeueAfter > 0

\* C39: PublishAll on an empty target list calls no publisher and returns nil, and
\* the rotation goes on: the key is persisted and reported although it was
\* delivered nowhere.
C39_NoTargetsStillPersists ==
    Len(spec.Publish) = 0 =>
        /\ pubCalls = <<>> /\ outcome = <<>> /\ published = {}
        /\ PublishReturned => pubErr = <<>>
        /\ pc = "persist" => (PublishReturned /\ ~kp.nil /\ ekErr = "")
        /\ (PublishReturned /\ EnsureKeyReturned) => (ekErr \in {"", "persist"} /\ writeCalls = 1)

C39_Witness ==
    /\ pc = "idle" /\ Len(spec.Publish) = 0 /\ res.Rotated /\ result.err = ""
    /\ secret.keyID = res.KeyID /\ status.CurrentKeyID = res.KeyID /\ published = {}

\* The current Reconcile has replaced the key of the profile and the clock still
\* reads the time of the rotation: the grace period has just begun.
GraceBegun ==
    /\ HasKey /\ res.Rotated /\ now = res.RotationTime
    /\ Len(fetched.CurrentKeyFingerprint) = 2

\* C31: when a rotation has replaced a key, the previous key stays in the Secret
\* next to the new one, and once Reconcile has returned without error the status
\* names it as the previous key.
C31_PreviousKeyKept ==
    GraceBegun =>
        /\ <<"tls.key", <<"PRIVATE KEY", fetched.CurrentKeyFingerprint[2]>>>> \in secret.data
        /\ (pc = "idle" /\ result.err = "") => status.PreviousKeyID = fetched.CurrentKeyID

\* The Reconcile that has just returned wrote the Secret: EnsureKey reported a
\* rotation and the Secret holds the key it reported.
WroteSecret ==
    /\ pc = "idle" /\ result.returned
    /\ ~res.nil /\ res.Rotated /\ ekErr = ""
    /\ secret.exists /\ secret.keyID = res.KeyID

\* C38: no early rotation.  While the policy has a positive interval, a
\* Reconcile that starts after a successful write of the Secret decides to
\* rotate, and so to write the Secret again, only when at least one interval
\* has passed since that write -- also when the status update that followed
\* the write failed.
C38_NoEarlyRotation ==
    (WroteSecret /\ spec.Interval > 0 /\ checkRotationNeeded(status, spec.Interval, now).rotate)
        => now >= res.RotationTime + spec.Interval

\* C40: every accepted policy has an interval of at least 3 x 5 minutes.
\* ValidateRotationPolicy rejects every interval below three times the smallest
\* grace period, the interval 0 among them, whatever the grace period is, so
\* the "interval = 0" branch of checkRotationNeeded is never taken for a
\* policy that passed validation.
C40_AcceptedIntervalAtLeastMin ==
    (fnPc = "checked" /\ fnOut.policy = "")
        => /\ fnIn.interval >= MinIntervalToGraceRatio * MinGracePeriod
           /\ checkRotationNeeded([EmptyStatus EXCEPT !.CurrentKeyID = "k1", !.LastRotation = 1],
                                  fnIn.interval, now).reason # "rotation disabled (interval=0)"

\* C33: use after wipe is an error.  On a KeyPair that Wipe has cleared,
\* ComputeFingerprint on its public key, Render, and Publish of every publisher
\* return an error, and none of them produces anything: no fingerprint, no
\* bundle, no file written or renamed, no request sent.
C33_UseAfterWipeFails ==
    fnPc = "used"
        => LET u == fnOut.used IN
           /\ u.call = "ComputeFingerprint" => u.fp.err # "" /\ u.fp.fp = <<>>
           /\ u.call = "Render" => u.render.err # "" /\ u.render.data = {}
           /\ u.call \in {"FilesystemPublisher.Publish", "HTTPPublisher.Publish"}
                => /\ u.pub.err # ""
                   /\ \A i \in DOMAIN u.pub.ops : u.pub.ops[i].op \notin {"WriteFile", "Rename", "POST"}

C33_Witness ==
    /\ fnPc = "used" /\ fnOut.kp.KeyID = "k2" /\ Len(fnOut.after) = 2
    /\ fnOut.kp.Algorithm = AlgorithmRSA /\ fnOut.kp.PublicKey = 0
    /\ fnOut.used.call = "FilesystemPublisher.Publish"
    /\ fnOut.used.pub.err = "failed to encode public key"
    /\ Len(fnOut.used.pub.ops) = 1

\* The stored status records a key whose interval has expired: rotation is due.
Due(t) ==
    /\ status.CurrentKeyID # "" /\ status.LastRotation = t /\ ~IsZero(t)
    /\ spec.Interval > 0 /\ now > t + spec.Interval

\* A key newer than the one of time t is in the Secret and in the status.
RotatedSince(t) ==
    /\ status.LastRotation > t
    /\ status.NextRotation = status.LastRotation + spec.Interval
    /\ status.CurrentKeyID # "" /\ secret.exists /\ secret.keyID = status.CurrentKeyID
    /\ Len(status.CurrentKeyFingerprint) = 2
    /\ <<"public.pem", <<"PUBLIC KEY", status.CurrentKeyFingerprint[2]>>>> \in secret.data

\* C37: rotation is eventually performed.  When rotation is due and Reconcile
\* keeps being retried, with key generation, publishing, the Secret write and
\* the status update each succeeding again and again, then eventually a new key
\* is in the Secret and the status records it, with lastRotation advanced and
\* nextRotation = lastRotation + interval.
C37_DueRotationHappens ==
    \A t \in 1..MaxTime : Due(t) ~> RotatedSince(t)

C37_Witness ==
    /\ pc = "requeue" /\ res.Rotated /\ updates = 1 /\ needsRotation
    /\ fetched.CurrentKeyID = "k1" /\ fetched.LastRotation = 1
    /\ now = 4 /\ res.RotationTime = 4
    /\ RotatedSince(1) /\ status.LastRotation = 4 /\ status.NextRotation = 6

====
